---- MODULE Spec2Model ----
(***************************************************************************)
(* Parity-compose harness of openclaw-rust: the mock gateway               *)
(* (gateway_mock.py), the assertor's decision collector (assertor.py) and  *)
(* the producer's readiness poller (producer.py).                          *)
(*                                                                         *)
(* Time is counted in abstract ticks of time.monotonic(); the durations    *)
(* the programs read from the environment are given in ticks.              *)
(* asyncio.wait_for raises the builtin TimeoutError (Python >= 3.11, which *)
(* the `except TimeoutError` of assertor.py:149 relies on).                *)
(***************************************************************************)
EXTENDS Integers, Sequences, FiniteSets, TLC

VARIABLES
    \* ---- assertor.py ----
    cfg,        \* the assertor's environment (SCENARIO_JSON, ACTION_ID, EXPECT_ACTION)
    apc,        \* position of assertor.main / wait_for_decisions
    scenario,   \* parse_scenario()'s list
    expected,   \* wait_for_decisions: expected
    pending,    \* wait_for_decisions: pending
    seen,       \* wait_for_decisions: seen
    now,        \* time.monotonic()
    deadline,   \* wait_for_decisions: deadline
    duplicate_check_deadline,
    err,        \* the exception that ended the assertor
    wsOpen,     \* the assertor's websocket is open
    log,        \* history: the frames wait_for_decisions has read, with the phase
    \* ---- gateway_mock.py ----
    TOKEN,      \* the configured gateway token
    nconn,      \* connections accepted so far: the handles 1..nconn
    wstate,     \* per connection: "none", "open", "closed", "closed_4001", "closed_1011"
    inq,        \* per connection: the frames sent by its client and not yet read
    nsent,      \* per connection: how many frames its client has sent
    gpc,        \* per connection: position of its connection_loop task
    bc,         \* per connection: the broadcast its task is running
    clients,    \* GatewayState._clients, in insertion order
    outbox,     \* per connection: the frames ws.send has delivered to it
    handled,    \* history, per connection: what was done with the last frame read
    accepted,   \* history, per connection: a connect request of it was accepted
    sendlog,    \* history: the ws.send calls of broadcasts
    \* ---- producer.py ----
    ppc,        \* position of producer.main / wait_for_clients
    attempt,    \* wait_for_clients: attempt
    pdeadline,  \* wait_for_clients: deadline
    rdeadline,  \* wait_for_response: deadline
    wake,       \* when asyncio.sleep(0.5) returns
    pread,      \* how many frames of its outbox the producer has read
    perr        \* the exception that ended the producer

colVars == <<cfg, apc, scenario, expected, pending, seen, now, deadline,
             duplicate_check_deadline, err, wsOpen, log>>

pollVars == <<ppc, attempt, pdeadline, rdeadline, wake, pread, perr>>

gwVars == <<TOKEN, nconn, wstate, inq, nsent, gpc, bc, clients, outbox,
            handled, accepted, sendlog>>

vars == <<cfg, apc, scenario, expected, pending, seen, now, deadline,
          duplicate_check_deadline, err, wsOpen, log,
          TOKEN, nconn, wstate, inq, nsent, gpc, bc, clients, outbox,
          handled, accepted, sendlog,
          ppc, attempt, pdeadline, rdeadline, wake, pread, perr>>

----------------------------------------------------------------------------
(* Bounds *)

\* frames wait_for_decisions reads in one run
MaxReads == 3
\* the clock stops here
MaxTime == 3
\* connections the gateway accepts
NumConns == 3
\* status queries of one wait_for_clients
MaxAttempts == 2
\* frames the clients send to the gateway, all connections together
MaxSent == 4

(* Durations, in ticks *)
ASSERT_TIMEOUT_SECS == 2
GRACE_SECS == 1
WAIT_SECS == 2
CONNECT_TIMEOUT == 3
RESPONSE_TIMEOUT == 2
POLL_INTERVAL == 1

----------------------------------------------------------------------------
(* Strings: str.strip() and str.lower() on the strings the model uses *)

Strip(s) ==
    CASE s = " a1 " -> "a1"
      [] s = " "    -> ""
      [] s = " Block " -> "Block"
      [] s = " Connect " -> "Connect"
      [] s = " EVENT " -> "EVENT"
      [] OTHER -> s

Lower(s) ==
    CASE s = "BLOCK" -> "block"
      [] s = "Block" -> "block"
      [] s = " Block " -> " block "
      [] s = "Allow" -> "allow"
      [] s = "Connect" -> "connect"
      [] s = "EVENT" -> "event"
      [] s = "Status" -> "status"
      [] OTHER -> s

ValidActions == {"allow", "review", "block"}

\* lexicographic order of the request ids and client names the model uses
IdOrder == <<"", " a1 ", "a1", "a2", "openclaw-agent-rs", "parity-assertor",
             "parity-healthcheck", "parity-producer", "unknown-client", "x9">>

IdRank(s) == CHOOSE i \in 1..Len(IdOrder) : IdOrder[i] = s

RECURSIVE SortedSeq(_)
\* sorted(keys)
SortedSeq(S) ==
    IF S = {} THEN <<>>
    ELSE LET m == CHOOSE x \in S : \A y \in S : IdRank(x) <= IdRank(y)
         IN  <<m>> \o SortedSeq(S \ {m})

\* a dict as a function; the empty dict
EmptyDict == [x \in {} |-> ""]

DictSet(d, k, v) == [x \in (DOMAIN d) \cup {k} |-> IF x = k THEN v ELSE d[x]]

DictDel(d, k) == [x \in (DOMAIN d) \ {k} |-> d[x]]

----------------------------------------------------------------------------
(* assertor.py: configuration and parse_scenario *)

\* one element of the PARITY_SCENARIO_JSON array; "" is an absent (falsy) field
Item(id, requestId, actionId, expectedAction, expectAction) ==
    [isDict |-> TRUE, id |-> id, requestId |-> requestId, actionId |-> actionId,
     expectedAction |-> expectedAction, expectAction |-> expectAction]

NonDictItem ==
    [isDict |-> FALSE, id |-> "", requestId |-> "", actionId |-> "",
     expectedAction |-> "", expectAction |-> ""]

\* the scenario arrays the model draws PARITY_SCENARIO_JSON from
ScenarioArrays ==
    { <<>>,
      << Item("a1", "", "", "block", "") >>,
      << Item("a1", "", "", "block", ""), Item("a2", "", "", "allow", "") >>,
      << Item("a2", "", "", "", "Allow"), Item("", " a1 ", "", " Block ", "") >>,
      << Item("a1", "", "", "", "") >>,
      << Item("a1", "", "", "deny", "") >>,
      << Item("a1", "", "", "block", ""), Item("a2", "", "", "deny", "") >>,
      << Item("", "", " ", "block", "") >>,
      << Item("a1", "", "", "block", ""), Item("a1", "", "", "allow", "") >>,
      << NonDictItem >> }

\* the assertor's environment
AssertorConfigs ==
    { [set |-> FALSE, json |-> TRUE, isList |-> TRUE, items |-> <<>>,
       ACTION_ID |-> "a1", EXPECT_ACTION_env |-> e] : e \in {" Block ", "deny"} }
    \cup
    { [set |-> TRUE, json |-> TRUE, isList |-> TRUE, items |-> a,
       ACTION_ID |-> "a1", EXPECT_ACTION_env |-> "block"] : a \in ScenarioArrays }
    \cup
    { [set |-> TRUE, json |-> TRUE, isList |-> TRUE,
       items |-> << Item("a1", "", "", "", "") >>,
       ACTION_ID |-> "a1", EXPECT_ACTION_env |-> "deny"] }
    \cup
    { [set |-> TRUE, json |-> j, isList |-> FALSE, items |-> <<>>,
       ACTION_ID |-> "a1", EXPECT_ACTION_env |-> "block"] : j \in BOOLEAN }

\* assertor.py:12
EXPECT_ACTION(c) == Lower(Strip(c.EXPECT_ACTION_env))

\* a or b (Python: the first truthy operand)
Or(a, b) == IF a # "" THEN a ELSE b

Event(id, action) == [id |-> id, expected_action |-> action]

ParseError(msg) == [ok |-> FALSE, events |-> <<>>, error |-> msg]

RECURSIVE ParseItems(_, _, _)
\* assertor.py:39-62, the loop from index idx with the events gathered so far
ParseItems(c, idx, events) ==
    IF idx > Len(c.items) THEN [ok |-> TRUE, events |-> events, error |-> ""]
    ELSE LET item == c.items[idx]
             request_id == Strip(Or(item.id, Or(item.requestId, Or(item.actionId, ""))))
             expected_action ==
                 Lower(Strip(Or(item.expectedAction,
                                Or(item.expectAction, EXPECT_ACTION(c)))))
         IN  IF ~item.isDict THEN ParseError("must be an object")
             ELSE IF request_id = "" THEN ParseError("missing id")
             ELSE IF expected_action \notin ValidActions
                  THEN ParseError("invalid expected action")
             ELSE ParseItems(c, idx + 1,
                             Append(events, Event(request_id, expected_action)))

\* assertor.py:30-66
parse_scenario(c) ==
    IF ~c.set THEN [ok |-> TRUE, events |-> <<Event(c.ACTION_ID, EXPECT_ACTION(c))>>,
                    error |-> ""]
    ELSE IF ~c.json THEN ParseError("not json")
    ELSE IF ~c.isList THEN ParseError("must be a JSON array")
    ELSE LET r == ParseItems(c, 1, <<>>)
         IN  IF ~r.ok THEN r
             ELSE IF r.events = <<>> THEN ParseError("must contain at least one event")
             ELSE r

----------------------------------------------------------------------------
(* assertor.py: inbound frames and extract_decision *)

\* a raw frame: json = it parses, isDict = it parses to an object; the other
\* fields are those of the object ("" is an absent key)
Frame(type, event, payloadIsDict, requestId, decisionIsDict, action) ==
    [json |-> TRUE, isDict |-> TRUE, type |-> type, event |-> event,
     payloadIsDict |-> payloadIsDict, requestId |-> requestId,
     decisionIsDict |-> decisionIsDict, action |-> action]

DecisionFrame(requestId, action) ==
    Frame("event", "security.decision", TRUE, requestId, TRUE, action)

NonJsonFrame ==
    [json |-> FALSE, isDict |-> FALSE, type |-> "", event |-> "",
     payloadIsDict |-> FALSE, requestId |-> "", decisionIsDict |-> FALSE, action |-> ""]

NonDictFrame == [NonJsonFrame EXCEPT !.json = TRUE]

\* the frames the assertor's socket may deliver
InboundFrames ==
    { DecisionFrame("a1", "block"), DecisionFrame("a1", "allow"),
      DecisionFrame("a2", "allow"),
      DecisionFrame(" a1 ", "BLOCK"),
      DecisionFrame("x9", "block"),
      DecisionFrame("x9", "review"),
      DecisionFrame("a1", "deny"),
      Frame("resp", "", FALSE, "", FALSE, ""),
      Frame("event", "security.decision", TRUE, " ", FALSE, ""),
      NonJsonFrame }

None == [ok |-> FALSE, request_id |-> "", action |-> ""]

\* assertor.py:87-105 for a frame that parses (json.loads raises otherwise)
extract_decision(f) ==
    IF ~f.isDict THEN None
    ELSE IF f.type # "event" \/ f.event # "security.decision" THEN None
    ELSE IF ~f.payloadIsDict THEN None
    ELSE IF Strip(f.requestId) = "" THEN None
    ELSE IF ~f.decisionIsDict THEN None
    ELSE IF Lower(Strip(f.action)) \notin ValidActions THEN None
    ELSE [ok |-> TRUE, request_id |-> Strip(f.requestId),
          action |-> Lower(Strip(f.action))]

----------------------------------------------------------------------------
(* assertor.py: main and wait_for_decisions *)

NoErr ==
    [kind |-> "none", request_id |-> "", expected |-> "", actual |-> "",
     missing |-> <<>>, named |-> FALSE]

Err(kind) == [NoErr EXCEPT !.kind = kind]

\* RuntimeError("duplicate decision received for request ...")
DuplicateError(request_id) == [Err("duplicate") EXCEPT !.request_id = request_id]

\* RuntimeError("unexpected decision action for ...: expected=..., actual=...")
UnexpectedError(request_id, expected_action, action) ==
    [Err("unexpected") EXCEPT !.request_id = request_id,
                              !.expected = expected_action, !.actual = action]

\* TimeoutError("timed out waiting for decision events: missing=...")
MissingError(pend) ==
    [Err("timeout") EXCEPT !.missing = SortedSeq(DOMAIN pend), !.named = TRUE]

\* the TimeoutError asyncio.wait_for raises: it carries no message
WaitForTimeout == Err("timeout")

RECURSIVE DictOfEvents(_, _)
\* {entry["id"]: entry["expected_action"] for entry in expected_events}
DictOfEvents(events, d) ==
    IF events = <<>> THEN d
    ELSE DictOfEvents(Tail(events),
                      DictSet(d, Head(events).id, Head(events).expected_action))

Outcome(pc, pend, sn, e) == [pc |-> pc, pending |-> pend, seen |-> sn, err |-> e]

\* MainFrame with the pending test ahead of the seen test
MainFrame_PendingFirst(f, pend, sn) ==
    IF ~f.json THEN Outcome("failed", pend, sn, Err("decode"))
    ELSE LET extracted == extract_decision(f)
             request_id == extracted.request_id
             action == extracted.action
         IN  IF ~extracted.ok THEN Outcome("main_top", pend, sn, NoErr)
             ELSE IF request_id \notin DOMAIN pend
                  THEN Outcome("main_top", pend, sn, NoErr)
             ELSE IF request_id \in DOMAIN sn
                  THEN Outcome("failed", pend, sn, DuplicateError(request_id))
             ELSE IF action # pend[request_id]
                  THEN Outcome("failed", pend, sn,
                               UnexpectedError(request_id, pend[request_id], action))
             ELSE Outcome("main_top", DictDel(pend, request_id),
                          DictSet(sn, request_id, action), NoErr)

\* MainFrame recording the decision before it compares the action
MainFrame_RecordFirst(f, pend, sn) ==
    IF ~f.json THEN Outcome("failed", pend, sn, Err("decode"))
    ELSE LET extracted == extract_decision(f)
             request_id == extracted.request_id
             action == extracted.action
         IN  IF ~extracted.ok THEN Outcome("main_top", pend, sn, NoErr)
             ELSE IF request_id \in DOMAIN sn
                  THEN Outcome("failed", pend, sn, DuplicateError(request_id))
             ELSE IF request_id \notin DOMAIN pend
                  THEN Outcome("main_top", pend, sn, NoErr)
             ELSE IF action # pend[request_id]
                  THEN Outcome("failed", DictDel(pend, request_id),
                               DictSet(sn, request_id, action),
                               UnexpectedError(request_id, pend[request_id], action))
             ELSE Outcome("main_top", DictDel(pend, request_id),
                          DictSet(sn, request_id, action), NoErr)

\* MainFrame recording the decision and leaving its id pending
MainFrame_KeepPending(f, pend, sn) ==
    IF ~f.json THEN Outcome("failed", pend, sn, Err("decode"))
    ELSE LET extracted == extract_decision(f)
             request_id == extracted.request_id
             action == extracted.action
         IN  IF ~extracted.ok THEN Outcome("main_top", pend, sn, NoErr)
             ELSE IF request_id \in DOMAIN sn
                  THEN Outcome("failed", pend, sn, DuplicateError(request_id))
             ELSE IF request_id \notin DOMAIN pend
                  THEN Outcome("main_top", pend, sn, NoErr)
             ELSE IF action # pend[request_id]
                  THEN Outcome("failed", pend, sn,
                               UnexpectedError(request_id, pend[request_id], action))
             ELSE Outcome("main_top", pend,
                          DictSet(sn, request_id, action), NoErr)

\* assertor.py:123-139: one frame read in the main loop
MainFrame(f, pend, sn) ==
    IF ~f.json THEN Outcome("failed", pend, sn, Err("decode"))
    ELSE LET extracted == extract_decision(f)
             request_id == extracted.request_id
             action == extracted.action
         IN  IF ~extracted.ok THEN Outcome("main_top", pend, sn, NoErr)
             ELSE IF request_id \in DOMAIN sn
                  THEN Outcome("failed", pend, sn, DuplicateError(request_id))
             ELSE IF request_id \notin DOMAIN pend
                  THEN Outcome("main_top", pend, sn, NoErr)
             ELSE IF action # pend[request_id]
                  THEN Outcome("failed", pend, sn,
                               UnexpectedError(request_id, pend[request_id], action))
             ELSE Outcome("main_top", DictDel(pend, request_id),
                          DictSet(sn, request_id, action), NoErr)

\* GraceFrame failing on a decision for an id that is not in seen
GraceFrame_RejectUnknown(f, pend, sn) ==
    IF ~f.json THEN Outcome("failed", pend, sn, Err("decode"))
    ELSE LET extracted == extract_decision(f)
         IN  IF ~extracted.ok THEN Outcome("grace_top", pend, sn, NoErr)
             ELSE Outcome("failed", pend, sn, DuplicateError(extracted.request_id))

\* assertor.py:151-156: one frame read in the duplicate-check window
GraceFrame(f, pend, sn) ==
    IF ~f.json THEN Outcome("failed", pend, sn, Err("decode"))
    ELSE LET extracted == extract_decision(f)
         IN  IF ~extracted.ok THEN Outcome("grace_top", pend, sn, NoErr)
             ELSE IF extracted.request_id \in DOMAIN sn
                  THEN Outcome("failed", pend, sn, DuplicateError(extracted.request_id))
             ELSE Outcome("grace_top", pend, sn, NoErr)

\* the gateway side of the state, with no gateway running
GwIdle ==
    /\ TOKEN = ""
    /\ nconn = 0
    /\ wstate = <<>>
    /\ inq = <<>>
    /\ nsent = <<>>
    /\ gpc = <<>>
    /\ bc = <<>>
    /\ clients = <<>>
    /\ outbox = <<>>
    /\ handled = <<>>
    /\ accepted = <<>>
    /\ sendlog = {}

PollNoErr == [kind |-> "none", request_id |-> "", got |-> <<>>]

\* the producer side of the state, with no producer running
PollIdle ==
    /\ ppc = "off"
    /\ attempt = 0
    /\ pdeadline = 0
    /\ rdeadline = 0
    /\ wake = 0
    /\ pread = 0
    /\ perr = PollNoErr

ColInit ==
    /\ GwIdle
    /\ PollIdle
    /\ cfg \in AssertorConfigs
    /\ apc = "start"
    /\ scenario = <<>>
    /\ expected = EmptyDict
    /\ pending = EmptyDict
    /\ seen = EmptyDict
    /\ now = 0
    /\ deadline = 0
    /\ duplicate_check_deadline = 0
    /\ err = NoErr
    /\ wsOpen = TRUE
    /\ log = <<>>

Terminal == {"failed", "returned"}

\* assertor.py:162: scenario = parse_scenario()
AssertorParse ==
    /\ apc = "start"
    /\ LET r == parse_scenario(cfg)
       IN  IF r.ok
           THEN /\ scenario' = r.events
                /\ apc' = "connect"
                /\ err' = NoErr
           ELSE /\ scenario' = <<>>
                /\ apc' = "failed"
                /\ err' = [Err("config") EXCEPT !.actual = r.error]
    /\ UNCHANGED <<gwVars, pollVars>>
    /\ UNCHANGED <<cfg, expected, pending, seen, now, deadline,
                   duplicate_check_deadline, wsOpen, log>>

\* assertor.py:163-170 and 111-115: the connect handshake, then the entry of
\* wait_for_decisions
AssertorConnect(ok) ==
    /\ apc = "connect"
    /\ IF ok
       THEN /\ expected' = DictOfEvents(scenario, EmptyDict)
            /\ pending' = DictOfEvents(scenario, EmptyDict)
            /\ seen' = EmptyDict
            /\ deadline' = now + ASSERT_TIMEOUT_SECS
            /\ apc' = "main_top"
            /\ err' = NoErr
       ELSE /\ apc' = "failed"
            /\ err' = Err("connect")
            /\ UNCHANGED <<expected, pending, seen, deadline>>
    /\ UNCHANGED <<gwVars, pollVars>>
    /\ UNCHANGED <<cfg, scenario, now, duplicate_check_deadline, wsOpen, log>>

\* assertor.py:116, 142: `while pending` ends; the duplicate-check window opens
MainExit ==
    /\ apc = "main_top"
    /\ DOMAIN pending = {}
    /\ duplicate_check_deadline' = now + GRACE_SECS
    /\ apc' = "grace_top"
    /\ UNCHANGED <<gwVars, pollVars>>
    /\ UNCHANGED <<cfg, scenario, expected, pending, seen, now, deadline, err,
                   wsOpen, log>>

\* a main loop that goes round again when the deadline has passed
MainDeadline_Spin ==
    /\ apc = "main_top"
    /\ DOMAIN pending # {}
    /\ deadline - now <= 0
    /\ UNCHANGED vars

\* assertor.py:117-120: the deadline has passed at the top of the loop
MainDeadline ==
    /\ apc = "main_top"
    /\ DOMAIN pending # {}
    /\ deadline - now <= 0
    /\ apc' = "failed"
    /\ err' = MissingError(pending)
    /\ UNCHANGED <<gwVars, pollVars>>
    /\ UNCHANGED <<cfg, scenario, expected, pending, seen, now, deadline,
                   duplicate_check_deadline, wsOpen, log>>

\* assertor.py:122: no frame is ready, the task suspends in asyncio.wait_for
MainBlock ==
    /\ apc = "main_top"
    /\ DOMAIN pending # {}
    /\ deadline - now > 0
    /\ apc' = "main_blocked"
    /\ UNCHANGED <<gwVars, pollVars>>
    /\ UNCHANGED <<cfg, scenario, expected, pending, seen, now, deadline,
                   duplicate_check_deadline, err, wsOpen, log>>

\* assertor.py:122-139: ws.recv() yields frame f before the timeout
MainRecv(f) ==
    /\ apc \in {"main_top", "main_blocked"}
    /\ DOMAIN pending # {}
    /\ deadline - now > 0
    /\ Len(log) < MaxReads
    /\ LET o == MainFrame(f, pending, seen)
       IN  /\ apc' = o.pc
           /\ pending' = o.pending
           /\ seen' = o.seen
           /\ err' = o.err
    /\ log' = Append(log, [frame |-> f, phase |-> "main"])
    /\ UNCHANGED <<gwVars, pollVars>>
    /\ UNCHANGED <<cfg, scenario, expected, now, deadline,
                   duplicate_check_deadline, wsOpen>>

\* assertor.py:122: asyncio.wait_for times out while the task is suspended; the
\* main loop does not catch its TimeoutError
MainWaitTimeout ==
    /\ apc = "main_blocked"
    /\ deadline - now <= 0
    /\ apc' = "failed"
    /\ err' = WaitForTimeout
    /\ UNCHANGED <<gwVars, pollVars>>
    /\ UNCHANGED <<cfg, scenario, expected, pending, seen, now, deadline,
                   duplicate_check_deadline, wsOpen, log>>

\* assertor.py:144-146, 158: the window has passed at the top of the loop
GraceExpire ==
    /\ apc = "grace_top"
    /\ duplicate_check_deadline - now <= 0
    /\ apc' = "returned"
    /\ UNCHANGED <<gwVars, pollVars>>
    /\ UNCHANGED <<cfg, scenario, expected, pending, seen, now, deadline,
                   duplicate_check_deadline, err, wsOpen, log>>

\* assertor.py:148: no frame is ready, the task suspends in asyncio.wait_for
GraceBlock ==
    /\ apc = "grace_top"
    /\ duplicate_check_deadline - now > 0
    /\ apc' = "grace_blocked"
    /\ UNCHANGED <<gwVars, pollVars>>
    /\ UNCHANGED <<cfg, scenario, expected, pending, seen, now, deadline,
                   duplicate_check_deadline, err, wsOpen, log>>

\* assertor.py:148-156: ws.recv() yields frame f inside the window
GraceRecv(f) ==
    /\ apc \in {"grace_top", "grace_blocked"}
    /\ duplicate_check_deadline - now > 0
    /\ Len(log) < MaxReads
    /\ LET o == GraceFrame(f, pending, seen)
       IN  /\ apc' = o.pc
           /\ pending' = o.pending
           /\ seen' = o.seen
           /\ err' = o.err
    /\ log' = Append(log, [frame |-> f, phase |-> "grace"])
    /\ UNCHANGED <<gwVars, pollVars>>
    /\ UNCHANGED <<cfg, scenario, expected, now, deadline,
                   duplicate_check_deadline, wsOpen>>

\* the timeout of the window left uncaught
GraceTimeoutOutcome_Uncaught == [pc |-> "failed", err |-> WaitForTimeout]

\* what `except TimeoutError: break` (assertor.py:149-150) makes of the timeout
GraceTimeoutOutcome == [pc |-> "returned", err |-> NoErr]

\* assertor.py:147-150, 158: asyncio.wait_for times out while the task is suspended
GraceWaitTimeout ==
    /\ apc = "grace_blocked"
    /\ duplicate_check_deadline - now <= 0
    /\ apc' = GraceTimeoutOutcome.pc
    /\ err' = GraceTimeoutOutcome.err
    /\ UNCHANGED <<gwVars, pollVars>>
    /\ UNCHANGED <<cfg, scenario, expected, pending, seen, now, deadline,
                   duplicate_check_deadline, wsOpen, log>>

\* assertor.py:122, 148: ws.recv() raises ConnectionClosed
AssertorConnClosed ==
    /\ apc \in {"main_top", "main_blocked", "grace_top", "grace_blocked"}
    /\ apc = "main_top" => (DOMAIN pending # {} /\ deadline - now > 0)
    /\ apc = "grace_top" => duplicate_check_deadline - now > 0
    /\ wsOpen
    /\ wsOpen' = FALSE
    /\ apc' = "failed"
    /\ err' = Err("closed")
    /\ UNCHANGED <<gwVars, pollVars>>
    /\ UNCHANGED <<cfg, scenario, expected, pending, seen, now, deadline,
                   duplicate_check_deadline, log>>

\* time.monotonic() advances
Tick ==
    /\ apc \notin Terminal
    /\ apc # "start"
    /\ now < MaxTime
    /\ now' = now + 1
    /\ UNCHANGED <<gwVars, pollVars>>
    /\ UNCHANGED <<cfg, apc, scenario, expected, pending, seen, deadline,
                   duplicate_check_deadline, err, wsOpen, log>>

ColNext ==
    \/ AssertorParse
    \/ \E ok \in BOOLEAN : AssertorConnect(ok)
    \/ MainExit
    \/ MainDeadline
    \/ MainBlock
    \/ \E f \in InboundFrames : MainRecv(f)
    \/ MainWaitTimeout
    \/ GraceExpire
    \/ GraceBlock
    \/ \E f \in InboundFrames : GraceRecv(f)
    \/ GraceWaitTimeout
    \/ AssertorConnClosed
    \/ Tick

SpecCollector == ColInit /\ [][ColNext]_vars

\* SpecTerm: the collector on a socket that never runs dry, with time that
\* advances and a task that runs when it can. The log holds the first
\* MaxReads frames; frames read after them are handled and not logged.
TermFrames ==
    { DecisionFrame("a1", "block"),
      DecisionFrame("a1", "allow"),
      DecisionFrame("x9", "block"),
      Frame("resp", "", FALSE, "", FALSE, "") }

TermInit ==
    /\ ColInit
    /\ cfg.set
    /\ cfg.items \in { << Item("a1", "", "", "block", "") >>,
                       << Item("a1", "", "", "block", ""),
                          Item("a2", "", "", "allow", "") >> }

\* assertor.py:122-139: ws.recv() yields frame f, past the end of the log
MainRecvOn(f) ==
    /\ apc \in {"main_top", "main_blocked"}
    /\ DOMAIN pending # {}
    /\ deadline - now > 0
    /\ Len(log) = MaxReads
    /\ LET o == MainFrame(f, pending, seen)
       IN  /\ apc' = o.pc
           /\ pending' = o.pending
           /\ seen' = o.seen
           /\ err' = o.err
    /\ UNCHANGED <<gwVars, pollVars>>
    /\ UNCHANGED <<cfg, scenario, expected, now, deadline,
                   duplicate_check_deadline, wsOpen, log>>

\* assertor.py:148-156: ws.recv() yields frame f, past the end of the log
GraceRecvOn(f) ==
    /\ apc \in {"grace_top", "grace_blocked"}
    /\ duplicate_check_deadline - now > 0
    /\ Len(log) = MaxReads
    /\ LET o == GraceFrame(f, pending, seen)
       IN  /\ apc' = o.pc
           /\ pending' = o.pending
           /\ seen' = o.seen
           /\ err' = o.err
    /\ UNCHANGED <<gwVars, pollVars>>
    /\ UNCHANGED <<cfg, scenario, expected, now, deadline,
                   duplicate_check_deadline, wsOpen, log>>

\* the deadline the collector is running against (assertor.py:115, 142)
Due ==
    IF apc \in {"main_top", "main_blocked"} THEN deadline
    ELSE IF apc \in {"grace_top", "grace_blocked"} THEN duplicate_check_deadline
    ELSE MaxTime

\* time.monotonic() advances; the code tests only whether the deadline has
\* been reached (assertor.py:117-118, 144-145), so time past it is not told apart
TermTick ==
    /\ apc \notin Terminal
    /\ apc # "start"
    /\ now < Due
    /\ now' = now + 1
    /\ UNCHANGED <<gwVars, pollVars>>
    /\ UNCHANGED <<cfg, apc, scenario, expected, pending, seen, deadline,
                   duplicate_check_deadline, err, wsOpen, log>>

\* a step the collector's task takes of itself
CollectorStep ==
    \/ MainExit
    \/ MainDeadline
    \/ MainBlock
    \/ MainWaitTimeout
    \/ GraceExpire
    \/ GraceBlock
    \/ GraceWaitTimeout

NextTerm ==
    \/ AssertorParse
    \/ AssertorConnect(TRUE)
    \/ MainExit
    \/ MainDeadline
    \/ MainBlock
    \/ \E f \in TermFrames : MainRecv(f)
    \/ \E f \in TermFrames : MainRecvOn(f)
    \/ MainWaitTimeout
    \/ GraceExpire
    \/ GraceBlock
    \/ \E f \in TermFrames : GraceRecv(f)
    \/ \E f \in TermFrames : GraceRecvOn(f)
    \/ GraceWaitTimeout
    \/ AssertorConnClosed
    \/ TermTick

SpecTerm ==
    TermInit /\ [][NextTerm]_vars /\ WF_vars(TermTick) /\ WF_vars(CollectorStep)

----------------------------------------------------------------------------
(* gateway_mock.py: frames *)

Conns == 1..NumConns

\* a frame a client sends: text = it is text, or bytes that decode to text;
\* json = it parses, isDict = it parses to an object;
\* "" is an absent key (an absent or null auth token compares like "": unequal
\* to every non-empty TOKEN); tag tells the broadcast events apart
GFrame(type, method, paramsIsDict, client, authIsDict, token) ==
    [text |-> TRUE, json |-> TRUE, isDict |-> TRUE, type |-> type, id |-> "r",
     method |-> method,
     paramsIsDict |-> paramsIsDict, client |-> client, authIsDict |-> authIsDict,
     token |-> token, tag |-> <<>>]

ConnectFrame(client, token) == GFrame("req", "connect", TRUE, client, TRUE, token)

\* connect with params.auth absent or not an object
ConnectNoAuth(client) == GFrame("req", " Connect ", TRUE, client, FALSE, "")

\* connect with params not an object, and no id
ConnectNoParams == [GFrame("req", "connect", FALSE, "", FALSE, "") EXCEPT !.id = ""]

RequestFrame(method) == GFrame("req", method, TRUE, "", FALSE, "")

EventFrame(type) == GFrame(type, "", FALSE, "", FALSE, "")

\* a binary frame that is not valid UTF-8, UTF-16 or UTF-32: json.loads raises
\* UnicodeDecodeError, which is no JSONDecodeError
UndecodableFrame ==
    [GFrame("", "", FALSE, "", FALSE, "")
        EXCEPT !.text = FALSE, !.json = FALSE, !.isDict = FALSE]

MalformedFrames ==
    { UndecodableFrame,
      [GFrame("", "", FALSE, "", FALSE, "") EXCEPT !.json = FALSE, !.isDict = FALSE],
      [GFrame("", "", FALSE, "", FALSE, "") EXCEPT !.isDict = FALSE],
      GFrame("resp", "", FALSE, "", FALSE, "") }

\* gateway_mock.py:75: str(frame.get("id", "unknown"))
ReqId(f) == IF f.id = "" THEN "unknown" ELSE f.id

\* gateway_mock.py:23-29
make_response(req_id, ok, result, error) ==
    [type |-> "resp", id |-> req_id, ok |-> ok, result |-> result, error |-> error]

NoResult == [ok |-> FALSE, client |-> "", status |-> "", clientCount |-> 0,
             clients |-> <<>>]

NoError == [code |-> 0, message |-> ""]

ConnectResult(client_name) == [NoResult EXCEPT !.ok = TRUE, !.client = client_name]

StatusResult(names) ==
    [NoResult EXCEPT !.status = "ok", !.clientCount = Len(names), !.clients = names]

----------------------------------------------------------------------------
(* gateway_mock.py: GatewayState *)

Keys(reg) == { reg[i].ws : i \in 1..Len(reg) }

NameOf(reg, ws) == reg[CHOOSE i \in 1..Len(reg) : reg[i].ws = ws].client_name

\* a registry that gives the connection a name of its own choosing
register_DefaultName(reg, ws, client_name) ==
    IF ws \in Keys(reg)
    THEN [i \in 1..Len(reg) |->
            IF reg[i].ws = ws THEN [ws |-> ws, client_name |-> "unknown"] ELSE reg[i]]
    ELSE Append(reg, [ws |-> ws, client_name |-> "unknown"])

\* gateway_mock.py:42-45: self._clients[ws] = ClientState(client_name)
register(reg, ws, client_name) ==
    IF ws \in Keys(reg)
    THEN [i \in 1..Len(reg) |->
            IF reg[i].ws = ws THEN [ws |-> ws, client_name |-> client_name] ELSE reg[i]]
    ELSE Append(reg, [ws |-> ws, client_name |-> client_name])

\* a registry that forgets nothing
unregister_Keep(reg, ws) == reg

\* gateway_mock.py:47-51: self._clients.pop(ws, None)
unregister(reg, ws) == SelectSeq(reg, LAMBDA e : e.ws # ws)

RECURSIVE UnregisterAll(_, _)
\* gateway_mock.py:68-69
UnregisterAll(reg, stale) ==
    IF stale = <<>> THEN reg
    ELSE UnregisterAll(unregister(reg, Head(stale)), Tail(stale))

\* a snapshot with one name per connection, in registration order
known_clients_PerConnection(reg) == [i \in 1..Len(reg) |-> reg[i].client_name]

\* gateway_mock.py:53-55
known_clients(reg) == SortedSeq({ reg[i].client_name : i \in 1..Len(reg) })

\* a broadcast to every connection the gateway has accepted, registered or not
Targets_EveryConnection(reg, exclude) ==
    LET others == SelectSeq([i \in 1..nconn |-> i], LAMBDA w : w # exclude)
    IN  [i \in 1..Len(others) |-> others[i]]

\* a broadcast that is made only for a registered sender
Targets_RegisteredSender(reg, exclude) ==
    IF \E i \in 1..Len(reg) : reg[i].ws = exclude
    THEN LET kept == SelectSeq(reg, LAMBDA e : e.ws # exclude)
         IN  [i \in 1..Len(kept) |-> kept[i].ws]
    ELSE <<>>

\* a snapshot that leaves the sender in
Targets_WithSender(reg, exclude) == [i \in 1..Len(reg) |-> reg[i].ws]

\* gateway_mock.py:59-60: [ws for ws in self._clients if ws is not exclude]
Targets(reg, exclude) ==
    LET kept == SelectSeq(reg, LAMBDA e : e.ws # exclude)
    IN  [i \in 1..Len(kept) |-> kept[i].ws]

NoFrame == GFrame("", "", FALSE, "", FALSE, "")

NoBroadcast == [active |-> FALSE, frame |-> NoFrame, targets |-> <<>>, next |-> 0,
                stale |-> <<>>]

\* a broadcast that gives up at the first send that fails
AfterSend_Abort(b, ok) ==
    IF ok THEN [b EXCEPT !.next = b.next + 1]
    ELSE [b EXCEPT !.next = Len(b.targets) + 1,
                   !.stale = Append(b.stale, b.targets[b.next])]

\* gateway_mock.py:63-67: one turn of the loop over the targets
AfterSend(b, ok) ==
    IF ok THEN [b EXCEPT !.next = b.next + 1]
    ELSE [b EXCEPT !.next = b.next + 1, !.stale = Append(b.stale, b.targets[b.next])]

----------------------------------------------------------------------------
(* gateway_mock.py: handle_request *)

\* gateway_mock.py:76
MethodOf(f) == Lower(Strip(f.method))

\* gateway_mock.py:77-83
TokenOf(f) == IF f.paramsIsDict /\ f.authIsDict THEN f.token ELSE ""

\* a check that also rejects when no token is configured
AuthRejected_Always(configured, f) == TokenOf(f) # configured

\* gateway_mock.py:84: TOKEN and token != TOKEN
AuthRejected(configured, f) == configured # "" /\ TokenOf(f) # configured

\* gateway_mock.py:95: str(params.get("client") or "unknown-client")
ClientNameOf(f) ==
    IF f.paramsIsDict /\ f.client # "" THEN f.client ELSE "unknown-client"

\* a gateway that answers any method it does not know as a status request
StatusMethods_AndUnknown == {"health", "status", "parity.clients", "bogus"}

\* gateway_mock.py:106
StatusMethods == {"health", "status", "parity.clients"}

\* what handle_request does with request f on connection ws: the registry
\* before its ws.send, the response it sends, and whether it then closes
HandleRequest(configured, reg, ws, f) ==
    IF MethodOf(f) = "connect"
    THEN IF AuthRejected(configured, f)
         THEN [verdict |-> "rejected", reg |-> reg, close |-> TRUE,
               resp |-> make_response(ReqId(f), FALSE, NoResult,
                          [code |-> 401, message |-> "invalid gateway token"])]
         ELSE [verdict |-> "accepted", reg |-> register(reg, ws, ClientNameOf(f)),
               close |-> FALSE,
               resp |-> make_response(ReqId(f), TRUE,
                                      ConnectResult(ClientNameOf(f)), NoError)]
    ELSE IF MethodOf(f) \in StatusMethods
    THEN [verdict |-> "status", reg |-> reg, close |-> FALSE,
          resp |-> make_response(ReqId(f), TRUE, StatusResult(known_clients(reg)),
                                 NoError)]
    ELSE [verdict |-> "unsupported", reg |-> reg, close |-> FALSE,
          resp |-> make_response(ReqId(f), FALSE, NoResult,
                                 [code |-> 404, message |-> MethodOf(f)])]


----------------------------------------------------------------------------
(* gateway_mock.py: connection_loop, one task per connection *)

\* the assertor side of the state, with no assertor running
ColIdle ==
    /\ cfg = [set |-> FALSE, json |-> TRUE, isList |-> TRUE, items |-> <<>>,
              ACTION_ID |-> "a1", EXPECT_ACTION_env |-> "block"]
    /\ apc = "off"
    /\ scenario = <<>>
    /\ expected = EmptyDict
    /\ pending = EmptyDict
    /\ seen = EmptyDict
    /\ now = 0
    /\ deadline = 0
    /\ duplicate_check_deadline = 0
    /\ err = NoErr
    /\ wsOpen = FALSE
    /\ log = <<>>

\* what connection_loop did with frame f: the verdict, whether a response was
\* delivered, the targets of the broadcast and whether it has ended, and for a
\* status request the registry its snapshot was taken of
Handled(f, verdict, replied, targets, done) ==
    [frame |-> f, verdict |-> verdict, replied |-> replied, targets |-> targets,
     stale |-> <<>>, done |-> done, reg |-> <<>>]

NotHandled == Handled(NoFrame, "none", FALSE, <<>>, TRUE)

\* gateway_mock.py:20, 147-148
GwInit ==
    /\ TOKEN \in {"", "tok"}
    /\ nconn = 0
    /\ wstate = [c \in Conns |-> "none"]
    /\ inq = [c \in Conns |-> <<>>]
    /\ nsent = [c \in Conns |-> 0]
    /\ gpc = [c \in Conns |-> "none"]
    /\ bc = [c \in Conns |-> NoBroadcast]
    /\ clients = <<>>
    /\ outbox = [c \in Conns |-> <<>>]
    /\ handled = [c \in Conns |-> NotHandled]
    /\ accepted = [c \in Conns |-> FALSE]
    /\ sendlog = {}

RECURSIVE Sum(_, _)
Sum(q, n) == IF n = 0 THEN 0 ELSE q[n] + Sum(q, n - 1)

\* gateway_mock.py:149-150: serve() accepts a connection and starts its task
ClientOpen(limit) ==
    /\ nconn < limit
    /\ nconn' = nconn + 1
    /\ wstate' = [wstate EXCEPT ![nconn + 1] = "open"]
    /\ gpc' = [gpc EXCEPT ![nconn + 1] = "recv"]
    /\ UNCHANGED <<TOKEN, inq, nsent, bc, clients, outbox, handled, accepted, sendlog>>
    /\ UNCHANGED <<colVars, pollVars>>

\* the client of connection c sends frame f
ClientSend(c, f, budget) ==
    /\ c <= nconn
    /\ wstate[c] = "open"
    /\ Sum(nsent, NumConns) < budget
    /\ nsent' = [nsent EXCEPT ![c] = @ + 1]
    /\ inq' = [inq EXCEPT ![c] = Append(@, [f EXCEPT !.tag = <<c, nsent[c] + 1>>])]
    /\ UNCHANGED <<TOKEN, nconn, wstate, gpc, bc, clients, outbox, handled,
                   accepted, sendlog>>
    /\ UNCHANGED <<colVars, pollVars>>

\* the transport of connection c closes (the client leaves, or the network)
ClientClose(c) ==
    /\ c <= nconn
    /\ wstate[c] = "open"
    /\ wstate' = [wstate EXCEPT ![c] = "closed"]
    /\ UNCHANGED <<TOKEN, nconn, inq, nsent, gpc, bc, clients, outbox, handled,
                   accepted, sendlog>>
    /\ UNCHANGED <<colVars, pollVars>>

\* gateway_mock.py:132
FrameType(f) == Lower(Strip(f.type))

\* an iteration that yields the frame received last
raw_Newest(q) == q[Len(q)]

\* gateway_mock.py:123: `async for raw in ws` yields the frames of the
\* connection in the order they were received
raw(q) == Head(q)

\* gateway_mock.py:123-144: the task of connection c reads its next frame and
\* runs up to its next suspension
GwRecv(c) ==
    /\ gpc[c] = "recv"
    /\ inq[c] # <<>>
    /\ inq' = [inq EXCEPT ![c] = Tail(@)]
    /\ LET f == raw(inq[c])
       IN  IF ~f.text
           THEN \* 125: the exception is not caught at 126 or 141; 143-144, and
                \* the server closes the connection of the handler that raised
                /\ handled' = [handled EXCEPT ![c] =
                                 Handled(f, "raised", FALSE, <<>>, TRUE)]
                /\ clients' = unregister(clients, c)
                /\ gpc' = [gpc EXCEPT ![c] = "done"]
                /\ UNCHANGED <<bc, outbox, accepted, sendlog>>
           ELSE
           IF ~f.json \/ ~f.isDict \/ FrameType(f) \notin {"req", "event"}
           THEN \* 126-130, 140: dropped
                /\ handled' = [handled EXCEPT ![c] =
                                 Handled(f, "dropped", FALSE, <<>>, TRUE)]
                /\ UNCHANGED <<gpc, bc, clients, outbox, accepted, sendlog>>
           ELSE IF FrameType(f) = "req"
           THEN \* 133-135 and handle_request
                LET h == HandleRequest(TOKEN, clients, c, f)
                IN  IF wstate[c] = "open"
                    THEN /\ outbox' = [outbox EXCEPT ![c] = Append(@, h.resp)]
                         /\ clients' = h.reg
                         /\ gpc' = [gpc EXCEPT ![c] =
                                      IF h.close THEN "closing" ELSE "recv"]
                         /\ handled' = [handled EXCEPT ![c] =
                                          [Handled(f, h.verdict, TRUE, <<>>, TRUE)
                                             EXCEPT !.reg = IF h.verdict = "status"
                                                            THEN clients ELSE <<>>]]
                         /\ accepted' = [accepted EXCEPT ![c] =
                                           @ \/ h.verdict = "accepted"]
                         /\ UNCHANGED <<bc, sendlog>>
                    ELSE \* ws.send raises ConnectionClosed: 141-144
                         /\ clients' = unregister(h.reg, c)
                         /\ gpc' = [gpc EXCEPT ![c] = "done"]
                         /\ handled' = [handled EXCEPT ![c] =
                                          Handled(f, h.verdict, FALSE, <<>>, TRUE)]
                         /\ accepted' = [accepted EXCEPT ![c] =
                                           @ \/ h.verdict = "accepted"]
                         /\ UNCHANGED <<bc, outbox, sendlog>>
           ELSE \* 136-139 and broadcast up to its first ws.send
                LET tg == Targets(clients, c)
                    ok == wstate[tg[1]] = "open"
                IN  IF tg = <<>>
                    THEN /\ handled' = [handled EXCEPT ![c] =
                                          Handled(f, "event", FALSE, <<>>, TRUE)]
                         /\ UNCHANGED <<gpc, bc, clients, outbox, accepted, sendlog>>
                    ELSE /\ handled' = [handled EXCEPT ![c] =
                                          Handled(f, "event", FALSE, tg, FALSE)]
                         /\ outbox' = IF ok THEN [outbox EXCEPT ![tg[1]] = Append(@, f)]
                                      ELSE outbox
                         /\ sendlog' = sendlog \cup
                                {[frame |-> f, from |-> c, to |-> tg[1], ok |-> ok]}
                         /\ bc' = [bc EXCEPT ![c] =
                                     AfterSend([active |-> TRUE, frame |-> f,
                                                targets |-> tg, next |-> 1,
                                                stale |-> <<>>], ok)]
                         /\ gpc' = [gpc EXCEPT ![c] = "bcast"]
                         /\ UNCHANGED <<clients, accepted>>
    /\ wstate' = IF raw(inq[c]).text \/ wstate[c] # "open" THEN wstate
                 ELSE [wstate EXCEPT ![c] = "closed_1011"]
    /\ UNCHANGED <<TOKEN, nconn, nsent>>
    /\ UNCHANGED <<colVars, pollVars>>

\* gateway_mock.py:63-67: the next ws.send of the broadcast of connection c
GwBroadcastSend(c) ==
    /\ gpc[c] = "bcast"
    /\ bc[c].next <= Len(bc[c].targets)
    /\ LET t == bc[c].targets[bc[c].next]
           ok == wstate[t] = "open"
       IN  /\ outbox' = IF ok THEN [outbox EXCEPT ![t] = Append(@, bc[c].frame)]
                        ELSE outbox
           /\ sendlog' = sendlog \cup
                  {[frame |-> bc[c].frame, from |-> c, to |-> t, ok |-> ok]}
           /\ bc' = [bc EXCEPT ![c] = AfterSend(@, ok)]
    /\ UNCHANGED <<TOKEN, nconn, wstate, inq, nsent, gpc, clients, handled, accepted>>
    /\ UNCHANGED <<colVars, pollVars>>

\* gateway_mock.py:68-69, 140: the stale targets are unregistered and the loop
\* of connection c goes on
GwBroadcastEnd(c) ==
    /\ gpc[c] = "bcast"
    /\ bc[c].next > Len(bc[c].targets)
    /\ clients' = UnregisterAll(clients, bc[c].stale)
    /\ handled' = [handled EXCEPT ![c] =
                     [@ EXCEPT !.stale = bc[c].stale, !.done = TRUE]]
    /\ bc' = [bc EXCEPT ![c] = NoBroadcast]
    /\ gpc' = [gpc EXCEPT ![c] = "recv"]
    /\ UNCHANGED <<TOKEN, nconn, wstate, inq, nsent, outbox, accepted, sendlog>>
    /\ UNCHANGED <<colVars, pollVars>>

\* gateway_mock.py:92-93: ws.close(code=4001), then handle_request returns
GwClose(c) ==
    /\ gpc[c] = "closing"
    /\ wstate' = [wstate EXCEPT ![c] = IF @ = "open" THEN "closed_4001" ELSE @]
    /\ gpc' = [gpc EXCEPT ![c] = "recv"]
    /\ UNCHANGED <<TOKEN, nconn, inq, nsent, bc, clients, outbox, handled, accepted,
                   sendlog>>
    /\ UNCHANGED <<colVars, pollVars>>

\* gateway_mock.py:123, 141-144: the connection is closed, the iteration ends
\* (frames the transport did not deliver are lost), the task unregisters
GwLoopEnd(c) ==
    /\ gpc[c] = "recv"
    /\ wstate[c] \in {"closed", "closed_4001"}
    /\ clients' = unregister(clients, c)
    /\ gpc' = [gpc EXCEPT ![c] = "done"]
    /\ UNCHANGED <<TOKEN, nconn, wstate, inq, nsent, bc, outbox, handled, accepted,
                   sendlog>>
    /\ UNCHANGED <<colVars, pollVars>>

\* the frames the clients send in Spec
SpecFrames ==
    { ConnectFrame("parity-assertor", "tok"),
      EventFrame("event") }

\* the frames the clients send in SpecConnect
ConnectFrames ==
    { ConnectFrame("parity-assertor", "tok"),
      ConnectFrame("", "tok"),
      ConnectFrame("openclaw-agent-rs", "bad"),
      ConnectFrame("openclaw-agent-rs", ""),
      ConnectNoAuth("parity-assertor"),
      ConnectNoParams,
      RequestFrame("Status"),
      RequestFrame("bogus"),
      EventFrame(" EVENT ") } \cup MalformedFrames

\* a client that does as those of the harness do: it sends connect first and
\* events after it (producer.py:138-160)
HarnessSend(c, f) ==
    /\ (nsent[c] = 0) <=> (f.type = "req")
    /\ ClientSend(c, f, MaxSent)

\* Spec: every connection, harness clients with the configured token (no
\* connect is rejected, so no task is ever at ws.close)
Init == ColIdle /\ PollIdle /\ GwInit /\ TOKEN = "tok"

Next ==
    \/ ClientOpen(NumConns)
    \/ \E c \in Conns, f \in SpecFrames : HarnessSend(c, f)
    \/ \E c \in Conns : ClientClose(c)
    \/ \E c \in Conns : GwRecv(c)
    \/ \E c \in Conns : GwBroadcastSend(c)
    \/ \E c \in Conns : GwBroadcastEnd(c)
    \/ \E c \in Conns : GwLoopEnd(c)

Spec == Init /\ [][Next]_vars

\* SpecIngress: every connection, clients that send connect requests and
\* events in any order, an event before or without a connect among them, and
\* that stay connected
NextIngress ==
    \/ ClientOpen(NumConns)
    \/ \E c \in Conns, f \in SpecFrames : ClientSend(c, f, MaxSent)
    \/ \E c \in Conns : GwRecv(c)
    \/ \E c \in Conns : GwBroadcastSend(c)
    \/ \E c \in Conns : GwBroadcastEnd(c)

SpecIngress == Init /\ [][NextIngress]_vars

\* SpecDrop: two connections whose clients send, in any order, connect
\* requests, events, requests with an unknown method and frames that are not
\* JSON, not an object, or of no or another type
DropFrames ==
    { ConnectFrame("parity-assertor", "tok"),
      EventFrame("event"),
      RequestFrame("bogus"),
      NoFrame } \cup MalformedFrames

NextDrop ==
    \/ ClientOpen(2)
    \/ \E c \in Conns, f \in DropFrames : ClientSend(c, f, MaxSent - 1)
    \/ \E c \in Conns : ClientClose(c)
    \/ \E c \in Conns : GwRecv(c)
    \/ \E c \in Conns : GwBroadcastEnd(c)
    \/ \E c \in Conns : GwLoopEnd(c)

SpecDrop == Init /\ [][NextDrop]_vars

\* SpecLive: two connections whose clients send connect requests with the
\* right and with a wrong token and events, in any order, and a gateway
\* whose event loop runs a task whenever one is ready. With two connections
\* a broadcast has at most one target, sent to in the step that reads the event.
LiveFrames ==
    { ConnectFrame("parity-assertor", "tok"),
      ConnectFrame("parity-assertor", "bad"),
      EventFrame("event") }

\* a step of one of the gateway's tasks
GatewayStep ==
    \E c \in Conns :
        \/ GwRecv(c)
        \/ GwBroadcastEnd(c)
        \/ GwClose(c)
        \/ GwLoopEnd(c)

NextLive ==
    \/ ClientOpen(2)
    \/ \E c \in Conns, f \in LiveFrames : ClientSend(c, f, MaxSent - 1)
    \/ \E c \in Conns : ClientClose(c)
    \/ \E c \in Conns : GwRecv(c)
    \/ \E c \in Conns : GwBroadcastEnd(c)
    \/ \E c \in Conns : GwClose(c)
    \/ \E c \in Conns : GwLoopEnd(c)

SpecLive == Init /\ [][NextLive]_vars /\ WF_vars(GatewayStep)

\* SpecConnect: a single connection, whose client sends every kind of frame,
\* with and without a configured token. With one connection a broadcast has no
\* target and ends in the step that reads the event.
InitConnect == ColIdle /\ PollIdle /\ GwInit

NextConnect ==
    \/ ClientOpen(1)
    \/ \E f \in ConnectFrames : ClientSend(1, f, MaxSent - 1)
    \/ ClientClose(1)
    \/ GwRecv(1)
    \/ GwClose(1)
    \/ GwLoopEnd(1)

SpecConnect == InitConnect /\ [][NextConnect]_vars


----------------------------------------------------------------------------
(* producer.py: main up to the end of wait_for_clients, on connection 1 *)

\* producer.py:9
GATEWAY_TOKEN == "tok"

\* producer.py:16-22, the default
WAIT_FOR_CLIENTS == <<"openclaw-agent-rs", "parity-assertor">>

\* producer.py:26: f"connect-{client_name}"
ConnectId == "connect-parity-producer"

\* producer.py:114: f"clients-{attempt}"
ClientsId(n) ==
    CASE n = 1 -> "clients-1"
      [] n = 2 -> "clients-2"
      [] n = 3 -> "clients-3"
      [] n = 4 -> "clients-4"
      [] OTHER -> "clients-5"

\* producer.py:24-35
connect_frame == [ConnectFrame("parity-producer", GATEWAY_TOKEN) EXCEPT !.id = ConnectId]

\* producer.py:115-124
ClientsRequest(n) == [RequestFrame("parity.clients") EXCEPT !.id = ClientsId(n)]

\* a waiter that takes any response for its own
IsResponseTo_AnyId(f, request_id) == f.type = "resp"

\* producer.py:99-106: the frame is the response wait_for_response waits for
IsResponseTo(f, request_id) == f.type = "resp" /\ f.id = request_id

\* producer.py:126: resp.get("result", {}).get("clients", [])
ClientsOf(resp) == resp.result.clients

\* a poller that is content with one of the names
ClientsReady_Any(required, names) ==
    \E i \in 1..Len(required) : \E j \in 1..Len(names) : names[j] = required[i]

\* producer.py:127: all(client in clients for client in WAIT_FOR_CLIENTS)
ClientsReady(required, names) ==
    \A i \in 1..Len(required) : \E j \in 1..Len(names) : names[j] = required[i]

\* producer.py:98: TimeoutError(f"timed out waiting for response {request_id}")
ResponseTimeout(request_id) ==
    [kind |-> "response_timeout", request_id |-> request_id, got |-> <<>>]

\* producer.py:131: TimeoutError(f"clients not ready before timeout; got={clients}")
ClientsNotReady(names) ==
    [kind |-> "clients_not_ready", request_id |-> "", got |-> names]

PollWaiting == {"wait_connect", "wait"}

PollTerminal == {"ready", "failed"}

\* producer.py:137: websockets.connect; the producer is about to send connect
PollInit ==
    /\ ColIdle
    /\ GwInit
    /\ TOKEN = GATEWAY_TOKEN
    /\ ppc = "start"
    /\ attempt = 0
    /\ pdeadline = 0
    /\ rdeadline = 0
    /\ wake = 0
    /\ pread = 0
    /\ perr = PollNoErr

\* ws.send(f) of the producer: the frame is queued for the gateway
ProducerSent(f) ==
    /\ nsent' = [nsent EXCEPT ![1] = @ + 1]
    /\ inq' = [inq EXCEPT ![1] = Append(@, [f EXCEPT !.tag = <<1, nsent[1] + 1>>])]

\* the producer ends with a ConnectionClosed of its websocket
ProducerFailsClosed ==
    /\ ppc' = "failed"
    /\ perr' = [PollNoErr EXCEPT !.kind = "ConnectionClosed"]

\* producer.py:138-140: send connect, enter wait_for_response(timeout=10.0)
ProducerConnect ==
    /\ ppc = "start"
    /\ nconn >= 1
    /\ IF wstate[1] = "open"
       THEN /\ ProducerSent(connect_frame)
            /\ ppc' = "wait_connect"
            /\ rdeadline' = now + CONNECT_TIMEOUT
            /\ perr' = perr
       ELSE /\ ProducerFailsClosed
            /\ UNCHANGED <<nsent, inq, rdeadline>>
    /\ UNCHANGED <<attempt, pdeadline, wake, pread>>
    /\ UNCHANGED <<TOKEN, nconn, wstate, gpc, bc, clients, outbox, handled,
                   accepted, sendlog>>
    /\ UNCHANGED colVars

\* producer.py:140-144, 111-112: the response to connect; on ok
\* wait_for_clients starts and fixes its deadline
ConnectAnswered(resp) ==
    IF resp.ok
    THEN /\ ppc' = "send"
         /\ pdeadline' = now + WAIT_SECS
         /\ UNCHANGED <<wake, perr>>
    ELSE /\ ppc' = "failed"
         /\ perr' = [PollNoErr EXCEPT !.kind = "connect_rejected"]
         /\ UNCHANGED <<pdeadline, wake>>

\* a poller that gives up at the first reply that lacks a name
ClientsAnswered_NoPatience(resp) ==
    IF ClientsReady(WAIT_FOR_CLIENTS, ClientsOf(resp))
    THEN /\ ppc' = "ready"
         /\ UNCHANGED <<pdeadline, wake, perr>>
    ELSE /\ ppc' = "failed"
         /\ perr' = ClientsNotReady(ClientsOf(resp))
         /\ UNCHANGED <<pdeadline, wake>>

\* producer.py:125-132: the response to the status query of this attempt
ClientsAnswered(resp) ==
    IF ClientsReady(WAIT_FOR_CLIENTS, ClientsOf(resp))
    THEN /\ ppc' = "ready"
         /\ UNCHANGED <<pdeadline, wake, perr>>
    ELSE IF now >= pdeadline
    THEN /\ ppc' = "failed"
         /\ perr' = ClientsNotReady(ClientsOf(resp))
         /\ UNCHANGED <<pdeadline, wake>>
    ELSE /\ ppc' = "sleep"
         /\ wake' = now + POLL_INTERVAL
         /\ UNCHANGED <<pdeadline, perr>>

\* producer.py:94-106: wait_for_response reads the next frame; any frame
\* but the awaited response is discarded
ProducerRecv ==
    /\ ppc \in PollWaiting
    /\ now < rdeadline
    /\ pread < Len(outbox[1])
    /\ pread' = pread + 1
    /\ LET f == outbox[1][pread + 1]
       IN  IF ppc = "wait_connect"
           THEN IF IsResponseTo(f, ConnectId) THEN ConnectAnswered(f)
                ELSE UNCHANGED <<ppc, pdeadline, wake, perr>>
           ELSE IF IsResponseTo(f, ClientsId(attempt)) THEN ClientsAnswered(f)
                ELSE UNCHANGED <<ppc, pdeadline, wake, perr>>
    /\ UNCHANGED <<attempt, rdeadline>>
    /\ UNCHANGED gwVars
    /\ UNCHANGED colVars

\* producer.py:96-99: the deadline of wait_for_response has passed
ProducerRecvTimeout ==
    /\ ppc \in PollWaiting
    /\ now >= rdeadline
    /\ ppc' = "failed"
    /\ perr' = ResponseTimeout(IF ppc = "wait_connect" THEN ConnectId
                               ELSE ClientsId(attempt))
    /\ UNCHANGED <<attempt, pdeadline, rdeadline, wake, pread>>
    /\ UNCHANGED gwVars
    /\ UNCHANGED colVars

\* producer.py:99: ws.recv() raises ConnectionClosed once the connection is
\* closed and nothing is left to read
ProducerConnClosed ==
    /\ ppc \in PollWaiting
    /\ wstate[1] # "open"
    /\ pread = Len(outbox[1])
    /\ ProducerFailsClosed
    /\ UNCHANGED <<attempt, pdeadline, rdeadline, wake, pread>>
    /\ UNCHANGED gwVars
    /\ UNCHANGED colVars

\* producer.py:113-125: the next attempt sends its status query and enters
\* wait_for_response(timeout=5.0)
PollSend ==
    /\ ppc = "send"
    /\ attempt < MaxAttempts
    /\ attempt' = attempt + 1
    /\ IF wstate[1] = "open"
       THEN /\ ProducerSent(ClientsRequest(attempt + 1))
            /\ ppc' = "wait"
            /\ rdeadline' = now + RESPONSE_TIMEOUT
            /\ perr' = perr
       ELSE /\ ProducerFailsClosed
            /\ UNCHANGED <<nsent, inq, rdeadline>>
    /\ UNCHANGED <<pdeadline, wake, pread>>
    /\ UNCHANGED <<TOKEN, nconn, wstate, gpc, bc, clients, outbox, handled,
                   accepted, sendlog>>
    /\ UNCHANGED colVars

\* producer.py:132: asyncio.sleep(0.5) returns
PollWake ==
    /\ ppc = "sleep"
    /\ now >= wake
    /\ ppc' = "send"
    /\ UNCHANGED <<attempt, pdeadline, rdeadline, wake, pread, perr>>
    /\ UNCHANGED gwVars
    /\ UNCHANGED colVars

\* the producer is suspended: in ws.recv() with nothing to read, or asleep
PollSuspended ==
    \/ ppc \in PollWaiting /\ pread = Len(outbox[1])
    \/ ppc = "sleep"

\* time.monotonic() advances; the producer reads it only when it resumes
PollTick ==
    /\ PollSuspended
    /\ now < MaxTime
    /\ now' = now + 1
    /\ UNCHANGED <<cfg, apc, scenario, expected, pending, seen, deadline,
                   duplicate_check_deadline, err, wsOpen, log>>
    /\ UNCHANGED gwVars
    /\ UNCHANGED pollVars

\* another client of the harness connects under one of the awaited names
\* (assertor.py:165-166)
PeerConnect(c, name) ==
    /\ c > 1
    /\ nsent[c] = 0
    /\ ClientSend(c, ConnectFrame(name, GATEWAY_TOKEN), MaxSent + MaxAttempts)

\* the connections of SpecPoller: the producer and one peer per awaited name
PollConns == 1 + Len(WAIT_FOR_CLIENTS)

\* SpecPoller follows the gateway, the producer and its peers until
\* wait_for_clients has ended
PollRunning == ppc \notin PollTerminal

PollNext ==
    \/ PollRunning /\ ClientOpen(PollConns)
    \/ ProducerConnect
    \/ ProducerRecv
    \/ ProducerRecvTimeout
    \/ ProducerConnClosed
    \/ PollSend
    \/ PollWake
    \/ PollTick
    \/ \E c \in Conns, i \in 1..Len(WAIT_FOR_CLIENTS) :
          PollRunning /\ PeerConnect(c, WAIT_FOR_CLIENTS[i])
    \/ \E c \in Conns : PollRunning /\ ClientClose(c)
    \/ \E c \in Conns : PollRunning /\ GwRecv(c)
    \/ \E c \in Conns : PollRunning /\ GwLoopEnd(c)

SpecPoller == PollInit /\ [][PollNext]_vars

\* SpecWait: the producer on a connection whose peer sends what it likes of
\* the frames a gateway can send: events, and responses with the awaited and
\* with other ids, early, late or never
WaitFrames ==
    { [EventFrame("event") EXCEPT !.tag = <<2, 1>>],
      make_response(ConnectId, TRUE, ConnectResult("parity-producer"), NoError),
      make_response(ClientsId(1), TRUE, StatusResult(<<"parity-producer">>), NoError),
      make_response(ClientsId(1), TRUE,
                    StatusResult(<<"openclaw-agent-rs", "parity-assertor",
                                   "parity-producer">>), NoError),
      make_response(ClientsId(2), TRUE, StatusResult(<<"parity-producer">>), NoError),
      make_response("r", FALSE, NoResult, [code |-> 404, message |-> "bogus"]) }

\* producer.py:99: the transport delivers frame f to the producer
PeerDelivers(f) ==
    /\ PollRunning
    /\ nconn >= 1
    /\ wstate[1] = "open"
    /\ Len(outbox[1]) < MaxReads
    /\ outbox' = [outbox EXCEPT ![1] = Append(@, f)]
    /\ UNCHANGED <<TOKEN, nconn, wstate, inq, nsent, gpc, bc, clients, handled,
                   accepted, sendlog>>
    /\ UNCHANGED <<colVars, pollVars>>

NextWait ==
    \/ ClientOpen(1)
    \/ \E f \in WaitFrames : PeerDelivers(f)
    \/ ProducerConnect
    \/ ProducerRecv
    \/ ProducerRecvTimeout
    \/ PollSend
    \/ PollWake
    \/ PollTick

\* time passes, and the producer's task runs when it can
SpecWait ==
    /\ PollInit
    /\ [][NextWait]_vars
    /\ WF_vars(PollTick)
    /\ WF_vars(ProducerRecv)
    /\ WF_vars(ProducerRecvTimeout)

----------------------------------------------------------------------------
(* Claims about the gateway *)

\* this step is the task of connection c reading its next frame
Reads(c) == gpc[c] = "recv" /\ inq[c] # <<>> /\ inq'[c] = Tail(inq[c])

IsRequest(f, method) ==
    f.json /\ f.isDict /\ Lower(Strip(f.type)) = "req"
           /\ Lower(Strip(f.method)) = method

IsEvent(f) == f.json /\ f.isDict /\ Lower(Strip(f.type)) = "event"

Last(q) == q[Len(q)]

Range(q) == { q[i] : i \in 1..Len(q) }

\* the token of the claim: params.auth.token, a mismatch when auth is missing
\* or not an object
C1_Mismatch(f) == ~(f.paramsIsDict /\ f.authIsDict /\ f.token = TOKEN)

\* C1: a connect request is answered with the 401 failure, and the connection
\* set to close, exactly when TOKEN is non-empty and the token supplied differs
\* from it; the rejecting step adds nothing to the registry; and a connection is
\* in the registry only if one of its connect requests was accepted.
C1_RejectedNeverRegistered ==
    /\ [](\A c \in Conns : c \in Keys(clients) => accepted[c])
    /\ [][\A c \in Conns :
            (Reads(c) /\ IsRequest(Head(inq[c]), "connect")) =>
              LET f == Head(inq[c])
                  rejected == TOKEN # "" /\ C1_Mismatch(f)
              IN  /\ (handled'[c].verdict = "rejected") <=> rejected
                  /\ (handled'[c].verdict = "accepted") <=> ~rejected
                  /\ rejected => /\ Keys(clients') \subseteq Keys(clients)
                                 /\ accepted'[c] = accepted[c]
                  /\ (rejected /\ wstate[c] = "open") =>
                        /\ outbox'[c] = Append(outbox[c],
                              make_response(ReqId(f), FALSE, NoResult,
                                [code |-> 401, message |-> "invalid gateway token"]))
                        /\ gpc'[c] = "closing"
                  /\ (~rejected /\ wstate[c] = "open") =>
                        /\ Len(outbox'[c]) = Len(outbox[c]) + 1
                        /\ Last(outbox'[c]).ok
                        /\ gpc'[c] = "recv" ]_vars

\* a connect without an auth object was rejected, answered with 401, and the
\* connection, never accepted, is not in the registry
C1_Witness ==
    \E c \in Conns :
        /\ TOKEN # ""
        /\ handled[c].verdict = "rejected"
        /\ ~handled[c].frame.authIsDict
        /\ ~accepted[c]
        /\ c \notin Keys(clients)
        /\ outbox[c] # <<>>
        /\ Last(outbox[c]).error.code = 401

\* the name of the claim: params.client, or the placeholder when it is absent
\* or empty
C2_Name(f) == IF f.paramsIsDict /\ f.client # "" THEN f.client ELSE "unknown-client"

\* C2: the step that accepts a connect request on an open connection delivers
\* the success response {ok: true, client: name} with the request's id, and in
\* the state in which that response is delivered the registry maps the
\* connection to exactly that name, in one entry.
C2_RegisteredBeforeResponse ==
    [][\A c \in Conns :
         (Reads(c) /\ IsRequest(Head(inq[c]), "connect")
            /\ handled'[c].verdict = "accepted" /\ wstate[c] = "open") =>
           LET f == Head(inq[c])
           IN  /\ outbox'[c] = Append(outbox[c],
                     make_response(ReqId(f), TRUE, ConnectResult(C2_Name(f)), NoError))
               /\ Cardinality({ i \in 1..Len(clients') : clients'[i].ws = c }) = 1
               /\ NameOf(clients', c) = C2_Name(f) ]_vars

\* a connect without a client name was accepted: its response and the registry
\* both hold the placeholder
C2_Witness ==
    \E c \in Conns :
        /\ handled[c].verdict = "accepted"
        /\ handled[c].frame.client = ""
        /\ outbox[c] # <<>>
        /\ Last(outbox[c]).ok
        /\ Last(outbox[c]).result.client = "unknown-client"
        /\ c \in Keys(clients)
        /\ NameOf(clients, c) = "unknown-client"

\* the broadcast sends recorded for frame f
SendsOf(f) == { r \in sendlog : r.frame = f }

\* C3: no broadcast send goes to the connection the event came from, and no
\* connection's outbox holds an event of its own; the targets of a broadcast
\* are the connections in the registry when the event is read, less the sender;
\* and when the broadcast has ended ws.send was called for each target, the
\* event being delivered to every target that was open at the call.
C3_BroadcastReachesOthers ==
    /\ [](\A r \in sendlog : r.to # r.from /\ r.frame.tag[1] = r.from)
    /\ [](\A c \in Conns : \A i \in 1..Len(outbox[c]) :
              outbox[c][i].type # "resp" => outbox[c][i].tag[1] # c)
    /\ [](\A c \in Conns :
              (handled[c].verdict = "event" /\ handled[c].done) =>
                 \A t \in Range(handled[c].targets) :
                    \E r \in SendsOf(handled[c].frame) :
                       /\ r.to = t
                       /\ r.from = c
                       /\ r.ok => handled[c].frame \in Range(outbox[t]))
    /\ [][\A c \in Conns :
            (Reads(c) /\ IsEvent(Head(inq[c]))) =>
               /\ handled'[c].frame = Head(inq[c])
               /\ Range(handled'[c].targets) = Keys(clients) \ {c}
               /\ Len(handled'[c].targets) = Cardinality(Keys(clients) \ {c}) ]_vars

\* a registered connection's event has been delivered to both other registered
\* connections
C3_Witness ==
    \E c \in Conns :
        /\ handled[c].verdict = "event"
        /\ handled[c].done
        /\ c \in Keys(clients)
        /\ Len(handled[c].targets) = 2
        /\ \A t \in Range(handled[c].targets) : handled[c].frame \in Range(outbox[t])
        /\ handled[c].frame \notin Range(outbox[c])

\* the targets of the running broadcast of c to which ws.send failed
FailedTargets(c) ==
    { t \in Range(bc[c].targets) :
        \E r \in SendsOf(bc[c].frame) : r.to = t /\ ~r.ok }

\* C4: a send of a broadcast changes nothing in the registry, and when the
\* broadcast ends exactly the targets whose send failed leave the registry,
\* every other entry staying as it was; every other target has been delivered
\* the event; the broadcaster's connection is not closed by it, the broadcaster
\* stays registered if it was, and its task is back at reading its next frame.
C4_SendFailureIsolated ==
    [][\A c \in Conns :
         (gpc[c] = "bcast" /\ <<gpc[c], bc[c]>>' # <<gpc[c], bc[c]>>) =>
            IF bc[c].next <= Len(bc[c].targets)
            THEN /\ clients' = clients
                 /\ gpc'[c] = "bcast"
                 /\ bc'[c].next = bc[c].next + 1
                 /\ wstate' = wstate
            ELSE /\ clients' = SelectSeq(clients, LAMBDA e : e.ws \notin FailedTargets(c))
                 /\ \A t \in Range(bc[c].targets) \ FailedTargets(c) :
                       bc[c].frame \in Range(outbox[t])
                 /\ c \notin FailedTargets(c)
                 /\ wstate' = wstate
                 /\ gpc'[c] = "recv" ]_vars

\* a broadcast has ended in which the send to one target failed and a later
\* target was delivered the event; the failed target has left the registry,
\* the broadcaster is open, registered and reading
C4_Witness ==
    \E c \in Conns :
        /\ handled[c].verdict = "event"
        /\ handled[c].done
        /\ Len(handled[c].targets) = 2
        /\ handled[c].stale = <<handled[c].targets[1]>>
        /\ handled[c].targets[1] \notin Keys(clients)
        /\ handled[c].frame \in Range(outbox[handled[c].targets[2]])
        /\ handled[c].targets[2] \in Keys(clients)
        /\ c \in Keys(clients)
        /\ wstate[c] = "open"
        /\ gpc[c] = "recv"


----------------------------------------------------------------------------
(* Claims about the decision collector, under SpecCollector *)

\* the decisions wait_for_decisions has read for request id
DecisionsFor(id) ==
    { i \in 1..Len(log) :
        /\ log[i].frame.json
        /\ extract_decision(log[i].frame).ok
        /\ extract_decision(log[i].frame).request_id = id }

\* the frame read by this step, when the step reads one
ReadsFrame == Len(log') = Len(log) + 1

LastRead == log'[Len(log')]

\* The hypothesis of C5: the expectation list has distinct ids, every frame read
\* parses, the socket stayed open, and for each expected id exactly one decision
\* was read, carrying the expected action.
C5_Hypothesis ==
    /\ DOMAIN expected # {}
    /\ Cardinality(DOMAIN expected) = Len(scenario)
    /\ wsOpen
    /\ \A i \in 1..Len(log) : log[i].frame.json
    /\ \A id \in DOMAIN expected :
         /\ Cardinality(DecisionsFor(id)) = 1
         /\ \A i \in DecisionsFor(id) :
              extract_decision(log[i].frame).action = expected[id]

\* C5: when exactly one well-formed decision with the expected action has been
\* read for each expected id, in any order and among any ignorable frames, and
\* no second decision for a matched id came in the duplicate-check window, a
\* finished wait_for_decisions has returned, and what it returned maps each
\* expected id to its expected action.
C5_OrderIndependentSuccess ==
    (apc \in Terminal /\ C5_Hypothesis) =>
        /\ apc = "returned"
        /\ seen = expected
        /\ \A i \in 1..Len(scenario) :
             seen[scenario[i].id] = scenario[i].expected_action

\* two expectations matched in the reverse of their list order with an
\* ignorable frame read as well
C5_Witness ==
    /\ apc = "returned"
    /\ C5_Hypothesis
    /\ Len(scenario) = 2
    /\ Len(log) = 3
    /\ \E i \in DecisionsFor(scenario[2].id), j \in DecisionsFor(scenario[1].id) : i < j
    /\ \E i \in 1..Len(log) : ~extract_decision(log[i].frame).ok

\* C6: reading a well-formed decision whose request id is already in seen ends
\* the collector with the duplicate-decision error for that id, in the main loop
\* and in the duplicate-check window, whatever action the decision carries.
C6_DuplicateFails ==
    [][ (ReadsFrame /\ LastRead.frame.json
          /\ extract_decision(LastRead.frame).ok
          /\ extract_decision(LastRead.frame).request_id \in DOMAIN seen)
        => (/\ apc' = "failed"
            /\ err' = DuplicateError(extract_decision(LastRead.frame).request_id)) ]_vars

\* a second decision for a satisfied id, with another action, read in the main
\* loop while another id is pending
C6_Witness ==
    /\ apc = "failed"
    /\ err.kind = "duplicate"
    /\ log[Len(log)].phase = "main"
    /\ DOMAIN pending # {}
    /\ err.request_id \in DOMAIN seen
    /\ extract_decision(log[Len(log)].frame).action # seen[err.request_id]

\* the same in the duplicate-check window
C6_WitnessGrace ==
    /\ apc = "failed"
    /\ err.kind = "duplicate"
    /\ log[Len(log)].phase = "grace"
    /\ extract_decision(log[Len(log)].frame).action # seen[err.request_id]

\* C7: reading, in the main loop, a well-formed decision for a pending id whose
\* action differs from the expected one ends the collector in that step with
\* the unexpected-action error naming the id, the expected and the actual
\* action; the id stays in pending and out of seen, no time passes, and a failed
\* collector reads nothing more.
C7_UnexpectedActionFailsAtOnce ==
    [][ /\ (ReadsFrame /\ LastRead.phase = "main" /\ LastRead.frame.json
             /\ extract_decision(LastRead.frame).ok
             /\ extract_decision(LastRead.frame).request_id \in DOMAIN pending
             /\ extract_decision(LastRead.frame).action
                  # pending[extract_decision(LastRead.frame).request_id])
           => (/\ apc' = "failed"
               /\ err' = UnexpectedError(
                             extract_decision(LastRead.frame).request_id,
                             pending[extract_decision(LastRead.frame).request_id],
                             extract_decision(LastRead.frame).action)
               /\ pending' = pending
               /\ seen' = seen
               /\ now' = now)
        /\ (apc = "failed" => (log' = log /\ apc' = "failed" /\ err' = err)) ]_vars

\* the error raised before the deadline, for an id that is still pending
C7_Witness ==
    /\ apc = "failed"
    /\ err.kind = "unexpected"
    /\ now < deadline
    /\ err.request_id \in DOMAIN pending
    /\ err.request_id \notin DOMAIN seen
    /\ err.expected = pending[err.request_id]
    /\ err.actual # err.expected

\* C8 as claimed: a timeout of the main phase names exactly the pending ids, in
\* sorted order, also when the deadline passes while the collector is suspended
\* waiting for a frame.
C8_TimeoutNamesPending ==
    (apc = "failed" /\ err.kind = "timeout") =>
        (err.named /\ err.missing = SortedSeq(DOMAIN pending))

\* the expectation list of configuration c is empty or holds an action outside
\* {allow, review, block}
C9_InvalidExpectations(c) ==
    IF ~c.set THEN EXPECT_ACTION(c) \notin ValidActions
    ELSE /\ c.json
         /\ c.isList
         /\ \/ c.items = <<>>
            \/ \E i \in 1..Len(c.items) :
                 /\ c.items[i].isDict
                 /\ Lower(Strip(Or(c.items[i].expectedAction,
                                   Or(c.items[i].expectAction, EXPECT_ACTION(c)))))
                      \notin ValidActions

\* C9 as claimed: with an empty expectation list or an expected action outside
\* {allow, review, block}, from a scenario array or from the single-action
\* defaults, the assertor ends with a configuration error and has read no frame.
C9_InvalidConfigRejected ==
    (apc # "start" /\ C9_InvalidExpectations(cfg)) =>
        (apc = "failed" /\ err.kind = "config" /\ log = <<>>)

----------------------------------------------------------------------------
(* Claims about the producer's readiness poller *)

\* the names under which the connections of registry reg are registered
NamesIn(reg) == { reg[i].client_name : i \in 1..Len(reg) }

\* the status replies the producer has read so far
RepliesRead ==
    { outbox[1][i] : i \in { j \in 1..pread :
                               /\ outbox[1][j].type = "resp"
                               /\ outbox[1][j].id # ConnectId } }

\* C10: wait_for_clients returns successfully only if one single status
\* reply, one atomic snapshot of the registry, contained every required client
\* name at once: the reply it returned on answers the query of the current
\* attempt, lists the names of the registry as it was when the gateway handled
\* that query, and every required name was then the name of a registered
\* connection. Names of different replies are never combined.
C10_ReadyOnSingleSnapshot ==
    ppc = "ready" =>
        LET reply == outbox[1][pread]
            h == handled[1]
        IN  /\ IsResponseTo(reply, ClientsId(attempt))
            /\ h.verdict = "status"
            /\ h.frame.id = reply.id
            /\ ClientsOf(reply) = known_clients(h.reg)
            /\ Range(WAIT_FOR_CLIENTS) \subseteq NamesIn(h.reg)
            /\ \A i \in 1..Len(h.reg) : h.reg[i].ws \in 1..nconn

\* wait_for_clients has returned on a later attempt, after a reply that
\* lacked an awaited name
C10_Witness ==
    /\ ppc = "ready"
    /\ attempt >= 2
    /\ \E r \in RepliesRead :
         /\ r.id = ClientsId(1)
         /\ ~(Range(WAIT_FOR_CLIENTS) \subseteq Range(ClientsOf(r)))

\* the replies read so far name every awaited client between them, and none
\* of them names them all
C10_NamesInDifferentReplies ==
    /\ \A i \in 1..Len(WAIT_FOR_CLIENTS) :
         \E r \in RepliesRead : WAIT_FOR_CLIENTS[i] \in Range(ClientsOf(r))
    /\ \A r \in RepliesRead : ~ClientsReady(WAIT_FOR_CLIENTS, ClientsOf(r))

\* this step is wait_for_clients reading the reply to the status query of its
\* current attempt
ReadsStatusReply ==
    /\ ppc = "wait"
    /\ pread' = pread + 1
    /\ IsResponseTo(outbox[1][pread + 1], ClientsId(attempt))

\* C11 as claimed: with no reply naming all the awaited clients and every
\* query answered within its per-call timeout, wait_for_clients fails with the
\* clients-not-ready timeout exactly at the overall deadline.
C11_TimeoutExactlyAtDeadline ==
    (ppc = "failed" /\ perr.kind = "clients_not_ready") => now = pdeadline

\* C11, amended: wait_for_clients looks at the overall deadline only when it
\* has read a status reply. A reply that lacks an awaited name and is read
\* before the deadline sends it to sleep and raises nothing; the first such
\* reply read at or after the deadline raises the clients-not-ready timeout,
\* which names the list of that reply. So that timeout is never raised before
\* the deadline, and it is raised at the time of that reply, which may be later
\* than the deadline. The only other timeout is the per-call one, raised when
\* the deadline of wait_for_response has passed.
C11_TimeoutAtFirstReplyPastDeadline ==
    /\ [](perr.kind = "clients_not_ready" =>
            /\ ppc = "failed"
            /\ now >= pdeadline
            /\ perr.got = ClientsOf(outbox[1][pread])
            /\ ~ClientsReady(WAIT_FOR_CLIENTS, perr.got))
    /\ [](perr.kind = "response_timeout" => (ppc = "failed" /\ now >= rdeadline))
    /\ [][ (ReadsStatusReply
             /\ ~ClientsReady(WAIT_FOR_CLIENTS, ClientsOf(outbox[1][pread + 1]))) =>
           IF now >= pdeadline
           THEN /\ ppc' = "failed"
                /\ perr' = ClientsNotReady(ClientsOf(outbox[1][pread + 1]))
                /\ now' = now
           ELSE /\ ppc' = "sleep"
                /\ perr' = PollNoErr
                /\ wake' = now + POLL_INTERVAL ]_vars

\* the clients-not-ready timeout raised after the overall deadline: the query
\* was sent no later than the deadline and answered within its per-call timeout
C11_Witness ==
    /\ ppc = "failed"
    /\ perr.kind = "clients_not_ready"
    /\ attempt >= 2
    /\ now > pdeadline
    /\ rdeadline - RESPONSE_TIMEOUT <= pdeadline
    /\ now < rdeadline
    /\ \A r \in RepliesRead : ~ClientsReady(WAIT_FOR_CLIENTS, ClientsOf(r))

----------------------------------------------------------------------------
(* Claims about the gateway, under SpecPoller *)

\* the list q is in ascending lexicographic order with no name repeated
StrictlyAscending(q) ==
    \A i \in 1..Len(q) : \A j \in 1..Len(q) : i < j => IdRank(q[i]) < IdRank(q[j])

\* result is the status result the claim describes for registry reg
C12_SnapshotOf(result, reg) ==
    /\ result.status = "ok"
    /\ Range(result.clients) = NamesIn(reg)
    /\ StrictlyAscending(result.clients)
    /\ result.clientCount = Cardinality(NamesIn(reg))
    /\ result.clientCount = Len(result.clients)

\* C12: a health, status or parity.clients request is answered with the
\* registry snapshot: a name is in the list exactly when a registered
\* connection holds it, no name is repeated, the list is in ascending
\* lexicographic order, and clientCount is the number of distinct names. This
\* holds of the response to each of the three methods in every reachable
\* registry, and of every step in which the gateway answers such a request,
\* which leaves the registry as it was.
C12_StatusIsSortedDistinctSnapshot ==
    /\ [](\A m \in {"health", "status", "parity.clients", "Status"} :
            LET h == HandleRequest(TOKEN, clients, 1, RequestFrame(m))
            IN  /\ h.verdict = "status"
                /\ h.resp.ok
                /\ h.reg = clients
                /\ C12_SnapshotOf(h.resp.result, clients))
    /\ [][\A c \in Conns :
            (Reads(c) /\ wstate[c] = "open"
               /\ \E m \in StatusMethods : IsRequest(Head(inq[c]), m)) =>
              /\ Len(outbox'[c]) = Len(outbox[c]) + 1
              /\ Last(outbox'[c]).type = "resp"
              /\ Last(outbox'[c]).id = Head(inq[c]).id
              /\ Last(outbox'[c]).ok
              /\ C12_SnapshotOf(Last(outbox'[c]).result, clients)
              /\ clients' = clients ]_vars

\* a status reply for a registry of three connections, two of them under one
\* name, and the first registered not the first in the list
C12_Witness ==
    /\ handled[1].verdict = "status"
    /\ handled[1].replied
    /\ Len(handled[1].reg) = 3
    /\ Cardinality(NamesIn(handled[1].reg)) = 2
    /\ Last(outbox[1]).type = "resp"
    /\ Last(outbox[1]).id = handled[1].frame.id
    /\ Last(outbox[1]).result.clientCount = 2
    /\ Last(outbox[1]).result.clients[1] # handled[1].reg[1].client_name

----------------------------------------------------------------------------
(* Claims about the gateway, under SpecLive *)

\* C13: the step in which the loop of a connection ends removes the
\* connection from the registry and changes no other entry; unregistering a
\* connection that is not in the registry changes nothing; a connection whose
\* loop has ended is not in the registry, in that state and ever after; and a
\* connection whose transport has closed is in the end out of the registry,
\* with its loop ended.
C13_UnregisteredAtLoopEnd ==
    /\ [][\A c \in Conns :
            (gpc[c] # "done" /\ gpc'[c] = "done") =>
               /\ c \notin Keys(clients')
               /\ \A i \in 1..Len(clients') : clients'[i] \in Range(clients)
               /\ \A i \in 1..Len(clients) :
                     clients[i].ws # c => clients[i] \in Range(clients') ]_vars
    /\ [](\A c \in Conns : c \notin Keys(clients) => unregister(clients, c) = clients)
    /\ [](\A c \in Conns : gpc[c] = "done" => c \notin Keys(clients))
    /\ [][\A c \in Conns : gpc[c] = "done" => gpc'[c] = "done"]_vars
    /\ \A c \in Conns :
          (wstate[c] \in {"closed", "closed_4001"})
             ~> (gpc[c] = "done" /\ c \notin Keys(clients))

\* a registered connection has closed and its loop has ended; it is out of the
\* registry, in which another connection is still registered
C13_Witness ==
    \E c \in Conns :
        /\ accepted[c]
        /\ wstate[c] = "closed"
        /\ gpc[c] = "done"
        /\ c \notin Keys(clients)
        /\ clients # <<>>

----------------------------------------------------------------------------
(* Claims about wait_for_response, under SpecWait *)

\* the request id the producer is waiting for a response to
Awaited == IF ppc = "wait_connect" THEN ConnectId ELSE ClientsId(attempt)

\* this step reads a frame of the producer's connection
ProducerReads == pread' # pread

\* C14: wait_for_response reads the frames of its connection one at a time,
\* each once and in order of arrival; it returns only on a frame of type resp
\* whose id is the awaited request id; any other frame it reads is dropped and
\* the wait goes on, with the deadline it had; so a frame read by one wait is
\* behind every frame a later wait reads. It raises its timeout only when its
\* deadline has passed without the awaited response, once the deadline has
\* passed it returns no frame, and every wait whose deadline the clock reaches
\* ends, with the awaited response or with the timeout.
C14_OnlyTheAwaitedResponse ==
    /\ [][ ProducerReads =>
             /\ ppc \in PollWaiting
             /\ pread' = pread + 1
             /\ pread < Len(outbox[1])
             /\ now < rdeadline
             /\ LET f == outbox[1][pread + 1]
                IN  IF f.type = "resp" /\ f.id = Awaited
                    THEN ppc' \notin PollWaiting
                    ELSE /\ ppc' = ppc
                         /\ perr' = perr
                         /\ rdeadline' = rdeadline
                         /\ attempt' = attempt ]_vars
    /\ [][ (ppc \in PollWaiting /\ ppc' # ppc /\ ~ProducerReads) =>
             /\ now >= rdeadline
             /\ ppc' = "failed"
             /\ perr' = ResponseTimeout(Awaited) ]_vars
    /\ [][ outbox'[1] # outbox[1] => pread' = pread ]_vars
    /\ (ppc \in PollWaiting /\ rdeadline <= MaxTime) ~> (ppc \notin PollWaiting)

\* the wait for the response to the first status query has timed out: that
\* response had come early, while the producer waited for the response to
\* connect, and was dropped then
C14_Witness ==
    /\ ppc = "failed"
    /\ perr = ResponseTimeout(ClientsId(1))
    /\ pread >= 2
    /\ \E i \in 1..pread :
         /\ outbox[1][i].type = "resp"
         /\ outbox[1][i].id = ClientsId(1)
         /\ \E j \in (i + 1)..pread : outbox[1][j].id = ConnectId

----------------------------------------------------------------------------
(* Claims about the gateway, under SpecDrop *)

\* this step changes nothing of the gateway but what reading a frame of
\* connection c does: no connection is closed, the registry is as it was, no
\* broadcast is sent or begun, and the task of c is back at reading its next
\* frame, the frames behind the one read still in its queue
OnlyReads(c) ==
    /\ wstate' = wstate
    /\ clients' = clients
    /\ sendlog' = sendlog
    /\ bc' = bc
    /\ \A d \in Conns \ {c} : outbox'[d] = outbox[d] /\ inq'[d] = inq[d]
    /\ gpc' = gpc
    /\ inq'[c] = Tail(inq[c])

\* f is a request whose method is none of connect, health, status,
\* parity.clients
UnknownMethod(f) ==
    /\ f.json
    /\ f.isDict
    /\ Lower(Strip(f.type)) = "req"
    /\ Lower(Strip(f.method)) \notin {"connect", "health", "status", "parity.clients"}

\* C15: the step that reads a request with an unknown method from an open
\* connection sends that connection the failure response with the request's
\* id and code 404, its message naming the method, and does nothing else: the
\* connection stays open, the registry is unchanged, nothing is broadcast, and
\* the task goes on to the next frame of the connection.
C15_UnknownMethodIs404 ==
    [][\A c \in Conns :
         (Reads(c) /\ UnknownMethod(Head(inq[c])) /\ wstate[c] = "open") =>
            /\ outbox'[c] = Append(outbox[c],
                  [type |-> "resp", id |-> Head(inq[c]).id, ok |-> FALSE,
                   result |-> NoResult,
                   error |-> [code |-> 404,
                              message |-> Lower(Strip(Head(inq[c]).method))]])
            /\ handled'[c].verdict = "unsupported"
            /\ OnlyReads(c) ]_vars

\* a connection got the 404 while another connection was registered, it is
\* open, and the event it sent next was broadcast to that connection
C15_Witness ==
    \E c \in Conns :
        /\ wstate[c] = "open"
        /\ Len(outbox[c]) = 1
        /\ outbox[c][1].type = "resp"
        /\ outbox[c][1].error.code = 404
        /\ outbox[c][1].error.message = "bogus"
        /\ clients # <<>>
        /\ handled[c].verdict = "event"
        /\ handled[c].frame.tag[2] = 2
        /\ Len(handled[c].targets) = 1
        /\ handled[c].frame \in Range(outbox[handled[c].targets[1]])

\* f is not JSON, not a JSON object, or has a type tag that is neither req
\* nor event
Malformed(f) ==
    \/ ~f.json
    \/ ~f.isDict
    \/ Lower(Strip(f.type)) \notin {"req", "event"}

\* C16 as claimed: the step that reads a malformed frame sends nothing, to
\* the sender or to anyone, and does nothing else: the registry is unchanged,
\* no connection is closed, and the task goes on to the next frame of the
\* connection.
C16_MalformedIsDropped ==
    [][\A c \in Conns :
         (Reads(c) /\ Malformed(Head(inq[c]))) =>
            /\ outbox' = outbox
            /\ handled'[c].verdict = "dropped"
            /\ OnlyReads(c) ]_vars

\* connection c has been sent the failure response of a rejected connect
Refused(c) ==
    \E i \in 1..Len(outbox[c]) :
        outbox[c][i].type = "resp" /\ outbox[c][i].error.code = 401

\* C17 as claimed: a connect that fails authentication is answered with the
\* 401 failure response; the connection is then closed with code 4001 (unless
\* it was closed already) and is unregistered, and stays absent from the
\* registry; once it has been sent the failure response it is sent nothing
\* more, and no further frame of it is read by the gateway.
C17_RejectedIsCutOff ==
    /\ [][\A c \in Conns :
            (handled'[c] # handled[c] /\ handled'[c].verdict = "rejected"
               /\ handled'[c].replied) =>
                  /\ outbox'[c] = Append(outbox[c],
                        make_response("r", FALSE, NoResult,
                            [code |-> 401, message |-> "invalid gateway token"]))
                  /\ wstate'[c] = "open" ]_vars
    /\ \A c \in Conns :
          Refused(c) ~> (wstate[c] # "open" /\ c \notin Keys(clients))
    /\ \A c \in Conns :
          Refused(c) ~> [](c \notin Keys(clients))
    /\ [][\A c \in Conns : Refused(c) => outbox'[c] = outbox[c]]_vars
    /\ [][\A c \in Conns : Refused(c) => inq'[c] \in {inq[c]} \cup
                 {Append(inq[c], f) : f \in {[g EXCEPT !.tag = t] :
                      g \in LiveFrames, t \in Conns \X (1..MaxSent)}}]_vars

\* wait_for_decisions is running or has returned
Collecting ==
    apc \in {"main_top", "main_blocked", "grace_top", "grace_blocked", "returned"}

\* C18: in every state the keys of pending and the keys of seen are disjoint
\* and together are the keys of expected, which while the collector runs are
\* the ids of the scenario's events; once the collector has started, expected
\* does not change, no key is added to pending, no key leaves seen and no
\* value of seen changes: an id goes from pending to seen at most once and
\* never comes back.
C18_PendingSeenPartition ==
    /\ [](/\ DOMAIN pending \cap DOMAIN seen = {}
          /\ DOMAIN pending \cup DOMAIN seen = DOMAIN expected
          /\ Collecting =>
                DOMAIN expected = {scenario[i].id : i \in 1..Len(scenario)})
    /\ [][apc \notin {"start", "connect"} =>
             /\ expected' = expected
             /\ DOMAIN pending' \subseteq DOMAIN pending
             /\ DOMAIN seen \subseteq DOMAIN seen'
             /\ \A k \in DOMAIN seen : seen'[k] = seen[k]
             /\ Cardinality(DOMAIN seen' \ DOMAIN seen) <= 1]_vars

\* the collector has recorded one decision and still waits for another
C18_Witness ==
    /\ apc = "main_top"
    /\ DOMAIN seen # {}
    /\ DOMAIN pending # {}
    /\ \E i \in 1..Len(log) : log[i].frame = DecisionFrame("x9", "block")

\* frame f is a well-formed decision for an id that was never expected
UnexpectedId(f) ==
    /\ f.json
    /\ extract_decision(f).ok
    /\ extract_decision(f).request_id \notin DOMAIN expected

\* C20: a step of the collector that reads a well-formed decision whose id is
\* not a key of expected, in the main loop or in the duplicate-check window,
\* leaves pending and seen as they were, raises nothing, and goes back to the
\* top of the loop it was read in.
C20_UnexpectedIdIgnored ==
    [][(Len(log') = Len(log) + 1 /\ UnexpectedId(log'[Len(log')].frame)) =>
          /\ pending' = pending
          /\ seen' = seen
          /\ err' = NoErr
          /\ apc' = IF log'[Len(log')].phase = "main" THEN "main_top"
                    ELSE "grace_top"]_vars

\* the collector read a decision for x9 in the main loop and another, with
\* another action, in the window, and returned what it had seen
C20_Witness ==
    /\ apc = "returned"
    /\ Len(log) = 3
    /\ log[1] = [frame |-> DecisionFrame("x9", "review"), phase |-> "main"]
    /\ log[3] = [frame |-> DecisionFrame("x9", "block"), phase |-> "grace"]
    /\ "x9" \notin DOMAIN expected
    /\ DOMAIN seen = DOMAIN expected
    /\ DOMAIN seen # {}

----------------------------------------------------------------------------
(* Claims about the order of delivery, under Spec *)

\* the places in the outbox of t that hold an event sent by connection c
EventsFrom(c, t) ==
    { i \in 1..Len(outbox[t]) :
        outbox[t][i].type # "resp" /\ outbox[t][i].tag[1] = c }

\* C19: the task of a connection takes the frame at the head of what the
\* connection has received, and only when it is not inside a broadcast; and
\* in every outbox the events of one sender stand in the order the sender
\* sent them, none of them twice.
C19_PerConnectionOrder ==
    /\ [][\A c \in Conns :
            Len(inq'[c]) < Len(inq[c]) =>
               /\ gpc[c] = "recv"
               /\ ~bc[c].active
               /\ handled'[c].frame = Head(inq[c])
               /\ inq'[c] = Tail(inq[c]) ]_vars
    /\ [](\A t \in Conns : \A i \in 1..Len(outbox[t]), j \in 1..Len(outbox[t]) :
            (/\ i < j
             /\ outbox[t][i].type # "resp"
             /\ outbox[t][j].type # "resp"
             /\ outbox[t][i].tag[1] = outbox[t][j].tag[1]) =>
                outbox[t][i].tag[2] < outbox[t][j].tag[2])

\* a connection had two events received before its task read the first, and
\* another connection has been delivered both
C19_Witness ==
    \E c \in Conns, t \in Conns :
        /\ Cardinality(EventsFrom(c, t)) = 2
        /\ handled[c].verdict = "event"
        /\ handled[c].done
        /\ inq[c] = <<>>

----------------------------------------------------------------------------
(* Claims about termination of the collector, under SpecTerm *)

\* wait_for_decisions is running
InCollector == apc \in {"main_top", "main_blocked", "grace_top", "grace_blocked"}

\* the last step read a frame the collector ignores
IgnoredRead ==
    /\ \/ apc \in {"main_top", "main_blocked"} /\ apc' = "main_top"
       \/ apc \in {"grace_top", "grace_blocked"} /\ apc' = "grace_top"
    /\ <<pending, seen, err, now>>' = <<pending, seen, err, now>>
    /\ apc' # apc \/ log' # log

\* C21: once it runs, wait_for_decisions ends, returning or failing; the
\* deadline of the main loop is never set again, the deadline of the window is
\* set only when the main loop is left, and a read that is ignored changes
\* neither.
C21_CollectorTerminates ==
    /\ InCollector ~> (apc \in Terminal)
    /\ [][InCollector => deadline' = deadline]_vars
    /\ [][(InCollector /\ ~(apc = "main_top" /\ apc' = "grace_top")) =>
             duplicate_check_deadline' = duplicate_check_deadline]_vars
    /\ [][IgnoredRead => <<deadline, duplicate_check_deadline>>' =
                            <<deadline, duplicate_check_deadline>>]_vars

\* the collector has timed out in the main loop after reading frames it
\* ignores past the end of the log
C21_Witness ==
    /\ apc = "failed"
    /\ err.kind \in {"missing", "timeout"}
    /\ Len(log) = MaxReads
    /\ \A i \in 1..Len(log) : log[i].frame = DecisionFrame("x9", "block")
    /\ now = deadline

----------------------------------------------------------------------------
(* Claims about what a client reads first, under Spec *)

\* healthcheck.py:25-29: the exit status main returns on the frame it reads
\* (an event frame has no "ok" key)
healthcheck(frame) == IF frame.type = "resp" /\ frame.ok THEN 0 ELSE 1

RECURSIVE Discarded(_, _)
\* assertor.py:71-84: the frames wait_for_response reads and drops before it
\* returns the response to request_id
Discarded(frames, request_id) ==
    IF frames = <<>> \/ IsResponseTo(Head(frames), request_id) THEN <<>>
    ELSE <<Head(frames)>> \o Discarded(Tail(frames), request_id)

\* the success response to the connect request of a harness client
ConnectOk(frame) ==
    /\ frame.type = "resp"
    /\ frame.id = "r"
    /\ frame.ok
    /\ frame.result.ok
    /\ frame.result.client = "parity-assertor"

\* C22: whatever a connection has been sent begins with the success response
\* to its connect request, so every broadcast event it was sent comes after
\* that response; the healthcheck, which reads one frame, exits 0 on it, and
\* wait_for_response, which drops what it reads before the response, drops
\* nothing.
C22_ResponseBeforeBroadcast ==
    \A c \in Conns :
        outbox[c] # <<>> =>
            /\ ConnectOk(outbox[c][1])
            /\ accepted[c]
            /\ healthcheck(outbox[c][1]) = 0
            /\ Discarded(outbox[c], "r") = <<>>
            /\ \A i \in 1..Len(outbox[c]) :
                  outbox[c][i].type # "resp" => i > 1

\* two connections have each been sent their response and then an event, not
\* the same one
C22_Witness ==
    \E c \in Conns, d \in Conns :
        /\ c # d
        /\ Len(outbox[c]) >= 2
        /\ ConnectOk(outbox[c][1])
        /\ outbox[c][2].type # "resp"
        /\ Len(outbox[d]) >= 2
        /\ outbox[d][2].type # "resp"
        /\ outbox[d][2].tag # outbox[c][2].tag

----------------------------------------------------------------------------
(* Claims about events of unregistered senders, under SpecIngress *)

\* C23: when the task of a connection that no connect has registered reads
\* an event, the targets of the broadcast are all the connections in the
\* registry and the registry is as it was; when the broadcast has ended the
\* event has been sent to each of them; and a connection with no accepted
\* connect is never in the registry.
C23_EventIngressNotGated ==
    /\ [][\A c \in Conns :
            (Reads(c) /\ IsEvent(Head(inq[c])) /\ ~accepted[c]) =>
               /\ handled'[c].verdict = "event"
               /\ handled'[c].frame = Head(inq[c])
               /\ Range(handled'[c].targets) = Keys(clients)
               /\ Len(handled'[c].targets) = Len(clients)
               /\ clients' = clients
               /\ accepted'[c] = accepted[c] ]_vars
    /\ [](\A c \in Conns :
            (handled[c].verdict = "event" /\ handled[c].done) =>
               \A t \in Range(handled[c].targets) :
                  handled[c].frame \in Range(outbox[t]))
    /\ [](\A c \in Conns : ~accepted[c] => c \notin Keys(clients))

\* the event of a connection that sent no connect has been delivered to both
\* other connections, which are registered; the sender is not
C23_Witness ==
    \E c \in Conns :
        /\ nsent[c] = 1
        /\ ~accepted[c]
        /\ handled[c].verdict = "event"
        /\ handled[c].done
        /\ Len(handled[c].targets) = 2
        /\ \A t \in Range(handled[c].targets) :
              t \in Keys(clients) /\ handled[c].frame \in Range(outbox[t])
        /\ c \notin Keys(clients)

====
